---- MODULE Spec2Model ----
(***************************************************************************)
(* Workflow chat front end: the workflow graph renderer                    *)
(* (components/workflow-visualization) and the page that feeds it.         *)
(*                                                                         *)
(* transformButterflowToElements is a pure function of the workflow, the   *)
(* task list and the interaction props.  It is written here as operators   *)
(* that follow the source statement by statement; the specifications draw  *)
(* its inputs from bounded sets, run it the way the component's effect     *)
(* does, and re-run it whenever the owner changes a prop.                  *)
(*                                                                         *)
(* SpecViz adds the component around it: each effect run issues one        *)
(* elk.layout call, the calls settle in any order, a resolved call sets    *)
(* the displayed nodes and edges, and pointer and click events on the      *)
(* displayed nodes call the callbacks the owner supplied.                  *)
(*                                                                         *)
(* SpecPlan is the plan message of the chat page: planWorkflow yields its  *)
(* updates one timer at a time, every run of PlanMessage's effect starts a *)
(* trackPlan loop on the one generator, and each loop applies the updates  *)
(* it is handed to planSteps.  SpecPlanLive adds the fairness of timers    *)
(* and promise continuations.                                              *)
(*                                                                         *)
(* SpecInput is MessageInput: the typed text, the props and the submit,    *)
(* key and click events.  SpecStream and SpecStreamLive are StreamingText, *)
(* SpecTypewriter the placeholder animation of the landing input, and      *)
(* SpecPage the page itself: overlapping handleSendMessage calls, each     *)
(* suspended at one of its timers, and the plan messages they append.      *)
(*                                                                         *)
(* Conventions.  An optional property (depends_on?, hoveredNodeId?) is a   *)
(* sequence of length <= 1: Absent when the property is undefined,         *)
(* Present(v) otherwise.  A task record carries the two fields the code    *)
(* reads (status, workflowStepId); its id and name are opaque payload.     *)
(***************************************************************************)
EXTENDS Naturals, Sequences, FiniteSets, TLC

VARIABLES
    workflow, tasks, hoveredNodeId, selectedNodeId,   \* props read by the transform
    setHoveredNodeId, onNodeSelect,                   \* callback props
    elements,                                         \* result of the latest transform call
    pc,                                               \* mounted / rendered / rerendered
    visible, nodes, edges,                            \* component state
    pending,                                          \* layout calls not yet settled
    issued,                                           \* number of layout calls made so far
    resolved,                                         \* layout calls resolved so far, in order
    event,                                            \* the latest event handled
    calls,                                            \* callback calls made by that event
    planMessage,                                      \* PlanMessage prop: the plan, all pending
    planPc,                                           \* unmounted / mounted
    planSteps,                                        \* PlanMessage state
    gen,                                              \* where planRef.current is suspended
    requests,                                         \* next() calls the generator has queued
    consumers,                                        \* one entry per trackPlan started
    emitted,                                          \* updates yielded so far, in order
    applied,                                          \* updates applied so far, in order
    isPlanCompleted,                                  \* IndexPage state
    completions,                                      \* planSteps at each onPlanComplete call
    input, disabled, isExecutingPlan,                 \* MessageInput state and props
    inputEvent,                                       \* the latest event MessageInput handled
    onSubmitCalls,                                    \* onSubmit calls made by that event
    text, displayedText, currentIndex,                \* StreamingText prop and state
    timer,                                            \* the index the pending timeout captured
    placeholder,                                      \* the textarea's placeholder attribute
    prefixComplete, stoppedRef,                       \* TypewriterInput state and ref
    runs,                                             \* one entry per run of the typing effect
    submits,                                          \* messages TypewriterInput passed on
    messages, isLoading, isCreatingPlan, chatStarted, \* IndexPage state
    landingpagePlan, pendingMessage,
    sends,                                            \* one entry per handleSendMessage call
    planRuns,                                         \* one entry per plan message displayed
    viewTransitions                                   \* "startViewTransition" in document

propVars == <<workflow, tasks, hoveredNodeId, selectedNodeId, setHoveredNodeId, onNodeSelect>>

stateVars == <<visible, nodes, edges>>

layoutVars == <<nodes, edges, pending, issued, resolved>>

vizVars == <<workflow, tasks, hoveredNodeId, selectedNodeId, setHoveredNodeId, onNodeSelect,
             elements, pc, visible, nodes, edges, pending, issued, resolved, event, calls>>

planVars == <<planMessage, planPc, planSteps, gen, requests, consumers, emitted, applied,
              isPlanCompleted, completions>>

inputVars == <<input, disabled, isExecutingPlan, inputEvent, onSubmitCalls>>

streamVars == <<text, displayedText, currentIndex, timer>>

typewriterVars == <<placeholder, prefixComplete, stoppedRef, runs, submits>>

pageVars == <<messages, isLoading, isCreatingPlan, chatStarted, landingpagePlan,
              pendingMessage, sends, planRuns, viewTransitions>>

laterVars == <<inputVars, streamVars, typewriterVars, pageVars>>

vars == <<vizVars, planVars, laterVars>>

-----------------------------------------------------------------------------
(* Bounds of the model *)

MaxTasks == 3

MaxNodes == 2

MaxDeps == 2

-----------------------------------------------------------------------------
(* Data *)

Absent == <<>>

Present(v) == <<v>>

IsPresent(o) == Len(o) > 0

ValueOf(o) == o[1]

ProjectStatus == {"todo", "in_progress", "done", "closed", "awaiting_trigger", "is_bot_processing"}

NodeIds == {"A", "B"}

ButterflowTask == [status : ProjectStatus, workflowStepId : NodeIds]

SeqsUpTo(S, n) == UNION {[1..k -> S] : k \in 0..n}

TaskLists == SeqsUpTo(ButterflowTask, MaxTasks)

DependsOnValues == {Absent} \cup {Present(d) : d \in SeqsUpTo(NodeIds, MaxDeps)}

WorkflowNode == [id : NodeIds, name : {"node"}, depends_on : DependsOnValues]

Workflows == SeqsUpTo(WorkflowNode, MaxNodes)

PlainNode(id) == [id |-> id, name |-> "node", depends_on |-> Absent]

DependentNode(id, deps) == [id |-> id, name |-> "node", depends_on |-> Present(deps)]

StatusWorkflows ==
    { <<>>,
      <<PlainNode("A")>>,
      <<PlainNode("A"), DependentNode("B", <<"A">>)>>,
      <<PlainNode("A"), PlainNode("A")>> }

mockWorkflow ==
    << [id |-> "start", name |-> "Start Node", depends_on |-> Absent],
       [id |-> "process", name |-> "Process Data", depends_on |-> Present(<<"start">>)],
       [id |-> "decision", name |-> "Make Decision", depends_on |-> Present(<<"process">>)],
       [id |-> "success", name |-> "Success Path", depends_on |-> Present(<<"decision">>)],
       [id |-> "failure", name |-> "Failure Path", depends_on |-> Present(<<"decision">>)],
       [id |-> "end", name |-> "End Node", depends_on |-> Present(<<"success", "failure">>)] >>

-----------------------------------------------------------------------------
(* transformButterflowToElements *)

IsActive(t) == t.status = "in_progress" \/ t.status = "is_bot_processing"

IsDone(t) == t.status = "done"

IsClosed(t) == t.status = "closed"

IsAwaiting(t) == t.status = "awaiting_trigger"

nodeTasksOf_noFilter(taskList, node) == taskList

nodeTasksOf(taskList, node) ==
    SelectSeq(taskList, LAMBDA task : task.workflowStepId = node.id)

IsInProgressOnly(t) == t.status = "in_progress"

nodeStatusOf_botIgnored(nodeTasks) ==
    IF Len(nodeTasks) > 0
    THEN IF (\E i \in 1..Len(nodeTasks) : IsInProgressOnly(nodeTasks[i])) THEN "in_progress"
         ELSE IF (\A i \in 1..Len(nodeTasks) : IsDone(nodeTasks[i])) THEN "done"
         ELSE IF (\E i \in 1..Len(nodeTasks) : IsClosed(nodeTasks[i])) THEN "closed"
         ELSE IF (\E i \in 1..Len(nodeTasks) : IsAwaiting(nodeTasks[i])) THEN "awaiting_trigger"
         ELSE "todo"
    ELSE "todo"

nodeStatusOf_someDone(nodeTasks) ==
    IF Len(nodeTasks) > 0
    THEN IF (\E i \in 1..Len(nodeTasks) : IsActive(nodeTasks[i])) THEN "in_progress"
         ELSE IF (\E i \in 1..Len(nodeTasks) : IsDone(nodeTasks[i])) THEN "done"
         ELSE IF (\E i \in 1..Len(nodeTasks) : IsClosed(nodeTasks[i])) THEN "closed"
         ELSE IF (\E i \in 1..Len(nodeTasks) : IsAwaiting(nodeTasks[i])) THEN "awaiting_trigger"
         ELSE "todo"
    ELSE "todo"

nodeStatusOf_noLengthGuard(nodeTasks) ==
    IF (\E i \in 1..Len(nodeTasks) : IsActive(nodeTasks[i])) THEN "in_progress"
    ELSE IF (\A i \in 1..Len(nodeTasks) : IsDone(nodeTasks[i])) THEN "done"
    ELSE IF (\E i \in 1..Len(nodeTasks) : IsClosed(nodeTasks[i])) THEN "closed"
    ELSE IF (\E i \in 1..Len(nodeTasks) : IsAwaiting(nodeTasks[i])) THEN "awaiting_trigger"
    ELSE "todo"

nodeStatusOf_awaitingFirst(nodeTasks) ==
    IF Len(nodeTasks) > 0
    THEN IF (\E i \in 1..Len(nodeTasks) : IsActive(nodeTasks[i])) THEN "in_progress"
         ELSE IF (\A i \in 1..Len(nodeTasks) : IsDone(nodeTasks[i])) THEN "done"
         ELSE IF (\E i \in 1..Len(nodeTasks) : IsAwaiting(nodeTasks[i])) THEN "awaiting_trigger"
         ELSE IF (\E i \in 1..Len(nodeTasks) : IsClosed(nodeTasks[i])) THEN "closed"
         ELSE "todo"
    ELSE "todo"

nodeStatusOf_everyAwaiting(nodeTasks) ==
    IF Len(nodeTasks) > 0
    THEN IF (\E i \in 1..Len(nodeTasks) : IsActive(nodeTasks[i])) THEN "in_progress"
         ELSE IF (\A i \in 1..Len(nodeTasks) : IsDone(nodeTasks[i])) THEN "done"
         ELSE IF (\E i \in 1..Len(nodeTasks) : IsClosed(nodeTasks[i])) THEN "closed"
         ELSE IF (\A i \in 1..Len(nodeTasks) : IsAwaiting(nodeTasks[i])) THEN "awaiting_trigger"
         ELSE "todo"
    ELSE "todo"

nodeStatusOf_firstTask(nodeTasks) ==
    IF Len(nodeTasks) > 0
    THEN IF IsActive(nodeTasks[1]) THEN "in_progress" ELSE nodeTasks[1].status
    ELSE "todo"

nodeStatusOf_cached(nodeTasks) ==
    IF \E k \in 1..Len(elements.nodes) : elements.nodes[k].data.nodeStatus = "in_progress"
    THEN "in_progress"
    ELSE IF Len(nodeTasks) > 0
    THEN IF (\E i \in 1..Len(nodeTasks) : IsActive(nodeTasks[i])) THEN "in_progress"
         ELSE IF (\A i \in 1..Len(nodeTasks) : IsDone(nodeTasks[i])) THEN "done"
         ELSE IF (\E i \in 1..Len(nodeTasks) : IsClosed(nodeTasks[i])) THEN "closed"
         ELSE IF (\E i \in 1..Len(nodeTasks) : IsAwaiting(nodeTasks[i])) THEN "awaiting_trigger"
         ELSE "todo"
    ELSE "todo"

nodeStatusOf(nodeTasks) ==
    IF Len(nodeTasks) > 0
    THEN IF (\E i \in 1..Len(nodeTasks) : IsActive(nodeTasks[i])) THEN "in_progress"
         ELSE IF (\A i \in 1..Len(nodeTasks) : IsDone(nodeTasks[i])) THEN "done"
         ELSE IF (\E i \in 1..Len(nodeTasks) : IsClosed(nodeTasks[i])) THEN "closed"
         ELSE IF (\E i \in 1..Len(nodeTasks) : IsAwaiting(nodeTasks[i])) THEN "awaiting_trigger"
         ELSE "todo"
    ELSE "todo"

transformNode(node, taskList, hovered, setHovered, selected) ==
    [ id |-> node.id,
      type |-> "butterflowNode",
      data |-> [ name |-> node.name,
                 nodeStatus |-> nodeStatusOf(nodeTasksOf(taskList, node)),
                 nodeTasks |-> nodeTasksOf(taskList, node),
                 hoveredNodeId |-> hovered,
                 setHoveredNodeId |-> setHovered,
                 selectedNodeId |-> selected ],
      position |-> [x |-> 0, y |-> 0] ]

HasDependencies(node) ==
    IsPresent(node.depends_on) /\ Len(ValueOf(node.depends_on)) > 0

edgesOfNode_swapped(node) ==
    IF IsPresent(node.depends_on)
    THEN [ j \in 1..Len(ValueOf(node.depends_on)) |->
             [ id |-> "e" \o ValueOf(node.depends_on)[j] \o "-" \o node.id,
               type |-> "smoothstep",
               source |-> node.id,
               target |-> ValueOf(node.depends_on)[j] ] ]
    ELSE <<>>

edgesOfNode_firstOnly(node) ==
    IF IsPresent(node.depends_on) /\ Len(ValueOf(node.depends_on)) > 0
    THEN << [ id |-> "e" \o ValueOf(node.depends_on)[1] \o "-" \o node.id,
              type |-> "smoothstep",
              source |-> ValueOf(node.depends_on)[1],
              target |-> node.id ] >>
    ELSE <<>>

edgesOfNode_idFromSource(node) ==
    IF IsPresent(node.depends_on)
    THEN [ j \in 1..Len(ValueOf(node.depends_on)) |->
             [ id |-> "e" \o ValueOf(node.depends_on)[j],
               type |-> "smoothstep",
               source |-> ValueOf(node.depends_on)[j],
               target |-> node.id ] ]
    ELSE <<>>

edgesOfNode(node) ==
    IF IsPresent(node.depends_on)
    THEN [ j \in 1..Len(ValueOf(node.depends_on)) |->
             [ id |-> "e" \o ValueOf(node.depends_on)[j] \o "-" \o node.id,
               type |-> "smoothstep",
               source |-> ValueOf(node.depends_on)[j],
               target |-> node.id ] ]
    ELSE <<>>

RECURSIVE flatMapEdges(_)
flatMapEdges(s) ==
    IF s = <<>> THEN <<>> ELSE edgesOfNode(Head(s)) \o flatMapEdges(Tail(s))

transformButterflowToElements_validated(wf, taskList, hovered, setHovered, selected) ==
    [ nodes |-> [k \in 1..Len(wf) |->
                    transformNode(wf[k], taskList, hovered, setHovered, selected)],
      edges |-> SelectSeq(flatMapEdges(SelectSeq(wf, HasDependencies)),
                          LAMBDA e : \E k \in 1..Len(wf) : wf[k].id = e.source) ]

transformButterflowToElements(wf, taskList, hovered, setHovered, selected) ==
    [ nodes |-> [k \in 1..Len(wf) |->
                    transformNode(wf[k], taskList, hovered, setHovered, selected)],
      edges |-> flatMapEdges(SelectSeq(wf, HasDependencies)) ]

-----------------------------------------------------------------------------
(* The component: props in, elements out *)

NoElements == [nodes |-> <<>>, edges |-> <<>>]

Transformed(wf, taskList) ==
    transformButterflowToElements(wf, taskList, hoveredNodeId, setHoveredNodeId,
                                  selectedNodeId)

NoEvent == [kind |-> "mount", id |-> ""]

NoGenerator == [k |-> 0, at |-> "returned", i |-> 0]

PlanUnmounted ==
    /\ planPc = "unmounted"
    /\ planSteps = <<>>
    /\ gen = NoGenerator
    /\ requests = <<>>
    /\ consumers = <<>>
    /\ emitted = <<>>
    /\ applied = <<>>
    /\ isPlanCompleted = FALSE
    /\ completions = <<>>

NoInputEvent == [kind |-> "mount", shiftKey |-> FALSE]

InputUnmounted ==
    /\ input = <<>>
    /\ disabled = FALSE
    /\ isExecutingPlan = FALSE
    /\ inputEvent = NoInputEvent
    /\ onSubmitCalls = <<>>

StreamUnmounted ==
    /\ text = <<>>
    /\ displayedText = <<>>
    /\ currentIndex = 0
    /\ timer = Absent

TypewriterUnmounted ==
    /\ placeholder = <<>>
    /\ prefixComplete = FALSE
    /\ stoppedRef = FALSE
    /\ runs = <<>>
    /\ submits = <<>>

PageUnmounted ==
    /\ messages = <<>>
    /\ isLoading = FALSE
    /\ isCreatingPlan = FALSE
    /\ chatStarted = FALSE
    /\ landingpagePlan = Absent
    /\ pendingMessage = ""
    /\ sends = <<>>
    /\ planRuns = <<>>

NoViewTransitions == viewTransitions = FALSE

MountWith(wfs, taskLists, setters, selectCallbacks) ==
    /\ InputUnmounted
    /\ StreamUnmounted
    /\ TypewriterUnmounted
    /\ PageUnmounted
    /\ NoViewTransitions
    /\ planMessage = <<>>
    /\ PlanUnmounted
    /\ workflow \in wfs
    /\ tasks \in taskLists
    /\ hoveredNodeId = Absent
    /\ selectedNodeId = Absent
    /\ setHoveredNodeId \in setters
    /\ onNodeSelect \in selectCallbacks
    /\ elements = NoElements
    /\ pc = "mounted"
    /\ visible = FALSE
    /\ nodes = <<>>
    /\ edges = <<>>
    /\ pending = <<>>
    /\ issued = 0
    /\ resolved = <<>>
    /\ event = NoEvent
    /\ calls = <<>>

Mount(wfs, taskLists) == MountWith(wfs, taskLists, {Absent}, {Absent})

Init == Mount(StatusWorkflows, TaskLists)

Rendered == pc \in {"rendered", "rerendered"}

Render ==
    /\ pc = "mounted"
    /\ elements' = Transformed(workflow, tasks)
    /\ pc' = "rendered"
    /\ visible' = TRUE
    /\ UNCHANGED <<workflow, hoveredNodeId, selectedNodeId, setHoveredNodeId, onNodeSelect, planVars, laterVars>>
    /\ UNCHANGED <<tasks, layoutVars, event, calls>>

SetTasks(newTasks) ==
    /\ Rendered
    /\ tasks' = newTasks
    /\ elements' = Transformed(workflow, newTasks)
    /\ pc' = "rerendered"
    /\ visible' = TRUE
    /\ UNCHANGED <<workflow, hoveredNodeId, selectedNodeId, setHoveredNodeId, onNodeSelect, planVars, laterVars>>
    /\ UNCHANGED <<layoutVars, event, calls>>

Swapped(s, i) ==
    [k \in 1..Len(s) |-> IF k = i THEN s[i + 1] ELSE IF k = i + 1 THEN s[i] ELSE s[k]]

Without(s, i) == [k \in 1..(Len(s) - 1) |-> IF k < i THEN s[k] ELSE s[k + 1]]

ReorderTasks == \E i \in 1..(Len(tasks) - 1) : SetTasks(Swapped(tasks, i))

AddTask == \E t \in ButterflowTask : Len(tasks) < MaxTasks /\ SetTasks(Append(tasks, t))

RemoveTask == \E i \in 1..Len(tasks) : SetTasks(Without(tasks, i))

ChangeTask ==
    \E i \in 1..Len(tasks), t \in ButterflowTask :
        t # tasks[i] /\ SetTasks([tasks EXCEPT ![i] = t])

Next == Render \/ ReorderTasks \/ AddTask \/ RemoveTask \/ ChangeTask

Spec == Init /\ [][Next]_vars

(* The page: ChatInterface mounts the visualization with tasks = [] and    *)
(* handleSendMessage replaces the workflow by the mock workflow.           *)

InitEdges == Mount(Workflows, {<<>>})

ShowMockWorkflow ==
    /\ Rendered
    /\ workflow' = mockWorkflow
    /\ tasks' = <<>>
    /\ elements' = Transformed(mockWorkflow, <<>>)
    /\ pc' = "rerendered"
    /\ visible' = TRUE
    /\ UNCHANGED <<hoveredNodeId, selectedNodeId, setHoveredNodeId, onNodeSelect, planVars, laterVars>>
    /\ UNCHANGED <<layoutVars, event, calls>>

NextEdges == Render \/ ShowMockWorkflow

SpecEdges == InitEdges /\ [][NextEdges]_vars

(* Workflows that break the data contract: a dependency that names no node *)
(* and a node id that occurs twice.                                        *)

MalformedWorkflows ==
    { <<DependentNode("B", <<"A">>)>>,
      <<PlainNode("A"), PlainNode("A")>>,
      <<DependentNode("A", <<"B">>), DependentNode("A", <<"B">>)>> }

InitMalformed == Mount(MalformedWorkflows, {<<>>})

SpecMalformed == InitMalformed /\ [][Next]_vars

-----------------------------------------------------------------------------
(* ButterflowWorkflowVisualization with its layout calls, and ButterflowNode *)

MaxRequests == 3

NodeWidth == 280

NodeHeight == 58

LayerSpacing == 100

VizWorkflows == {<<PlainNode("A")>>, <<PlainNode("A"), DependentNode("B", <<"A">>)>>}

VizTaskLists == {<<>>, <<[status |-> "in_progress", workflowStepId |-> "A"]>>}

HoveredValues == {Absent, Present("A"), Present("B")}

SelectedValues == {Absent, Present("A")}

SetterValues == {Absent, Present("setHoveredNodeId")}

SelectCallbackValues == {Absent, Present("onNodeSelect")}

ElkOutcomes == {"placed"}

Inputs(wf, taskList, hovered, setHovered, selected) ==
    [ workflow |-> wf, tasks |-> taskList, hoveredNodeId |-> hovered,
      setHoveredNodeId |-> setHovered, selectedNodeId |-> selected ]

layoutChild(node) ==
    [ id |-> node.id, type |-> node.type, data |-> node.data, position |-> node.position,
      width |-> NodeWidth, height |-> NodeHeight ]

elkEdge(edge) == [id |-> edge.id, sources |-> <<edge.source>>, targets |-> <<edge.target>>]

LayoutRequest(seq, inputs, els) ==
    [ seq |-> seq,
      inputs |-> inputs,
      children |-> [k \in 1..Len(els.nodes) |-> layoutChild(els.nodes[k])],
      elkEdges |-> [k \in 1..Len(els.edges) |-> elkEdge(els.edges[k])],
      edges |-> els.edges ]

elkLayout(request, outcome) ==
    [k \in 1..Len(request.children) |->
        [ node |-> request.children[k],
          x |-> IF outcome = "placed" THEN Present(0) ELSE Absent,
          y |-> IF outcome = "placed"
                THEN Present((k - 1) * (NodeHeight + LayerSpacing))
                ELSE Absent ] ]

OrZero(o) == IF IsPresent(o) THEN ValueOf(o) ELSE 0

layoutedNode(child) ==
    [ id |-> child.node.id, type |-> child.node.type, data |-> child.node.data,
      width |-> child.node.width, height |-> child.node.height,
      position |-> [x |-> OrZero(child.x), y |-> OrZero(child.y)],
      targetPosition |-> "top",
      sourcePosition |-> "bottom" ]

layoutedNodes(children) == [k \in 1..Len(children) |-> layoutedNode(children[k])]

emphasisOf_exclusive(node) ==
    IF node.data.selectedNodeId = Present(node.id) THEN {"selected"}
    ELSE IF node.data.hoveredNodeId = Present(node.id) THEN {"hovered"}
    ELSE {}

emphasisOf(node) ==
    (IF node.data.hoveredNodeId = Present(node.id) THEN {"hovered"} ELSE {})
        \cup (IF node.data.selectedNodeId = Present(node.id) THEN {"selected"} ELSE {})

InitViz ==
    MountWith({<<PlainNode("A"), DependentNode("B", <<"A">>)>>}, {<<>>},
              {Present("setHoveredNodeId")}, SelectCallbackValues)

NewRequest ==
    LayoutRequest(issued + 1,
                  Inputs(workflow', tasks', hoveredNodeId', setHoveredNodeId', selectedNodeId'),
                  elements')

RunEffect_noGate ==
    /\ visible' = visible
    /\ elements' = transformButterflowToElements(workflow', tasks', hoveredNodeId',
                                                 setHoveredNodeId', selectedNodeId')
    /\ pending' = Append(pending, NewRequest)
    /\ issued' = issued + 1
    /\ calls' = <<>>
    /\ UNCHANGED <<nodes, edges, resolved, onNodeSelect, planVars, laterVars>>

RunEffect_cancelling ==
    /\ visible' = TRUE
    /\ elements' = transformButterflowToElements(workflow', tasks', hoveredNodeId',
                                                 setHoveredNodeId', selectedNodeId')
    /\ pending' = <<NewRequest>>
    /\ issued' = issued + 1
    /\ calls' = <<>>
    /\ UNCHANGED <<nodes, edges, resolved, onNodeSelect, planVars, laterVars>>

RunEffect_showsPlaceholders ==
    /\ visible' = TRUE
    /\ elements' = transformButterflowToElements(workflow', tasks', hoveredNodeId',
                                                 setHoveredNodeId', selectedNodeId')
    /\ pending' = Append(pending, NewRequest)
    /\ issued' = issued + 1
    /\ calls' = <<>>
    /\ nodes' = elements'.nodes
    /\ edges' = elements'.edges
    /\ UNCHANGED <<resolved, onNodeSelect, planVars, laterVars>>

RunEffect ==
    /\ visible' = TRUE
    /\ elements' = transformButterflowToElements(workflow', tasks', hoveredNodeId',
                                                 setHoveredNodeId', selectedNodeId')
    /\ pending' = Append(pending, NewRequest)
    /\ issued' = issued + 1
    /\ calls' = <<>>
    /\ UNCHANGED <<nodes, edges, resolved, onNodeSelect, planVars, laterVars>>

FirstEffect ==
    /\ pc = "mounted"
    /\ pc' = "rendered"
    /\ event' = [kind |-> "effect", id |-> ""]
    /\ UNCHANGED <<workflow, tasks, hoveredNodeId, selectedNodeId, setHoveredNodeId>>
    /\ RunEffect

PropsChanged ==
    /\ Rendered
    /\ issued < MaxRequests
    /\ pc' = "rerendered"
    /\ event' = [kind |-> "props", id |-> ""]
    /\ RunEffect

WorkflowChanged ==
    /\ workflow' \in VizWorkflows \ {workflow}
    /\ UNCHANGED <<tasks, hoveredNodeId, selectedNodeId, setHoveredNodeId>>
    /\ PropsChanged

TasksChanged ==
    /\ tasks' \in VizTaskLists \ {tasks}
    /\ UNCHANGED <<workflow, hoveredNodeId, selectedNodeId, setHoveredNodeId>>
    /\ PropsChanged

HoveredChanged ==
    /\ hoveredNodeId' \in HoveredValues \ {hoveredNodeId}
    /\ UNCHANGED <<workflow, tasks, selectedNodeId, setHoveredNodeId>>
    /\ PropsChanged

SelectedChanged ==
    /\ selectedNodeId' \in SelectedValues \ {selectedNodeId}
    /\ UNCHANGED <<workflow, tasks, hoveredNodeId, setHoveredNodeId>>
    /\ PropsChanged

SetterChanged ==
    /\ setHoveredNodeId' \in SetterValues \ {setHoveredNodeId}
    /\ UNCHANGED <<workflow, tasks, hoveredNodeId, selectedNodeId>>
    /\ PropsChanged

LayoutResolved_latestOnly ==
    \E i \in 1..Len(pending), outcome \in ElkOutcomes :
        /\ nodes' = IF pending[i].seq = issued
                    THEN layoutedNodes(elkLayout(pending[i], outcome))
                    ELSE nodes
        /\ edges' = IF pending[i].seq = issued THEN pending[i].edges ELSE edges
        /\ pending' = Without(pending, i)
        /\ resolved' = Append(resolved, pending[i])
        /\ event' = [kind |-> "resolved", id |-> ""]
        /\ calls' = <<>>
        /\ UNCHANGED <<propVars, planVars, laterVars, elements, pc, visible, issued>>

LayoutResolved_currentEdges ==
    \E i \in 1..Len(pending), outcome \in ElkOutcomes :
        /\ nodes' = layoutedNodes(elkLayout(pending[i], outcome))
        /\ edges' = elements.edges
        /\ pending' = Without(pending, i)
        /\ resolved' = Append(resolved, pending[i])
        /\ event' = [kind |-> "resolved", id |-> ""]
        /\ calls' = <<>>
        /\ UNCHANGED <<propVars, planVars, laterVars, elements, pc, visible, issued>>

LayoutResolved ==
    \E i \in 1..Len(pending), outcome \in ElkOutcomes :
        /\ nodes' = layoutedNodes(elkLayout(pending[i], outcome))
        /\ edges' = pending[i].edges
        /\ pending' = Without(pending, i)
        /\ resolved' = Append(resolved, pending[i])
        /\ event' = [kind |-> "resolved", id |-> ""]
        /\ calls' = <<>>
        /\ UNCHANGED <<propVars, planVars, laterVars, elements, pc, visible, issued>>

LayoutRejected_fallback ==
    \E i \in 1..Len(pending) :
        /\ pending' = Without(pending, i)
        /\ nodes' = pending[i].children
        /\ edges' = pending[i].edges
        /\ event' = [kind |-> "rejected", id |-> ""]
        /\ calls' = <<>>
        /\ UNCHANGED <<propVars, planVars, laterVars, elements, pc, visible, issued, resolved>>

LayoutRejected ==
    \E i \in 1..Len(pending) :
        /\ pending' = Without(pending, i)
        /\ event' = [kind |-> "rejected", id |-> ""]
        /\ calls' = <<>>
        /\ UNCHANGED <<propVars, planVars, laterVars, elements, pc, visible, nodes, edges, issued, resolved>>

CallIfSupplied(callback, arg) ==
    IF IsPresent(callback) THEN <<[fn |-> ValueOf(callback), arg |-> arg]>> ELSE <<>>

PointerEvent(kind, id, made) ==
    /\ visible
    /\ event' = [kind |-> kind, id |-> id]
    /\ calls' = made
    /\ UNCHANGED <<propVars, planVars, laterVars, elements, pc, visible, layoutVars>>

onMouseEnter_localHover ==
    \E k \in 1..Len(nodes) :
        /\ visible
        /\ event' = [kind |-> "enter", id |-> nodes[k].id]
        /\ calls' = CallIfSupplied(nodes[k].data.setHoveredNodeId, Present(nodes[k].id))
        /\ nodes' = [j \in 1..Len(nodes) |->
                        [nodes[j] EXCEPT !.data.hoveredNodeId = Present(nodes[k].id)]]
        /\ UNCHANGED <<propVars, planVars, laterVars, elements, pc, visible, edges, pending, issued, resolved>>

onMouseEnter ==
    \E k \in 1..Len(nodes) :
        PointerEvent("enter", nodes[k].id,
                     CallIfSupplied(nodes[k].data.setHoveredNodeId, Present(nodes[k].id)))

onMouseLeave_withId ==
    \E k \in 1..Len(nodes) :
        PointerEvent("leave", nodes[k].id,
                     CallIfSupplied(nodes[k].data.setHoveredNodeId, Present(nodes[k].id)))

onMouseLeave ==
    \E k \in 1..Len(nodes) :
        PointerEvent("leave", nodes[k].id,
                     CallIfSupplied(nodes[k].data.setHoveredNodeId, Absent))

onNodeClick_selected ==
    \E k \in 1..Len(nodes) :
        PointerEvent("click", nodes[k].id, CallIfSupplied(onNodeSelect, selectedNodeId))

onNodeClick ==
    \E k \in 1..Len(nodes) :
        PointerEvent("click", nodes[k].id,
                     CallIfSupplied(onNodeSelect, Present(nodes[k].id)))

NextViz ==
    \/ FirstEffect
    \/ WorkflowChanged
    \/ TasksChanged
    \/ HoveredChanged
    \/ SelectedChanged
    \/ SetterChanged
    \/ LayoutResolved
    \/ LayoutRejected
    \/ onMouseEnter
    \/ onMouseLeave
    \/ onNodeClick

SpecViz == InitViz /\ [][NextViz]_vars

-----------------------------------------------------------------------------
(* planWorkflow and PlanMessage (app/page.tsx).  A step carries its id, its *)
(* optional substeps (their statuses; titles are opaque) and its status.   *)
(* planMessage is plan with status pending added to every step, so the     *)
(* generator's walk over plan is a walk over the ids and substeps of       *)
(* planMessage.                                                            *)

MaxPlanSteps == 2

MaxSubsteps == 2

MaxConsumers == 3

PlanStatus == {"pending", "in_progress", "completed"}

StepIds == <<"step-1", "step-2", "step-3", "step-4", "step-5", "step-6">>

PendingSubsteps(n) == [j \in 1..n |-> "pending"]

plan ==
    << [id |-> StepIds[1], substeps |-> Present(PendingSubsteps(3))],
       [id |-> StepIds[2], substeps |-> Present(PendingSubsteps(3))],
       [id |-> StepIds[3], substeps |-> Present(PendingSubsteps(2))],
       [id |-> StepIds[4], substeps |-> Present(PendingSubsteps(3))],
       [id |-> StepIds[5], substeps |-> Present(PendingSubsteps(3))],
       [id |-> StepIds[6], substeps |-> Present(PendingSubsteps(3))] >>

SubstepChoices == {Absent} \cup {Present(PendingSubsteps(n)) : n \in 0..MaxSubsteps}

BoundedPlans ==
    { [k \in 1..Len(c) |-> [id |-> StepIds[k], substeps |-> c[k]]] :
        c \in UNION {[1..n -> SubstepChoices] : n \in 1..MaxPlanSteps} }

PlanChoices == BoundedPlans \cup {plan}

langingpagePlan(p) ==
    [k \in 1..Len(p) |-> [id |-> p[k].id, substeps |-> p[k].substeps, status |-> "pending"]]

(* The generator.  gen is the yield it will make next: the in_progress     *)
(* update of step k, the update of substep i (counted from 0) of step k,   *)
(* the completed update of step k, or none once the loop has ended.        *)

planWorkflowStart(p) ==
    IF Len(p) > 0 THEN [k |-> 1, at |-> "in_progress", i |-> 0] ELSE NoGenerator

HasSubstep(step, i) == IsPresent(step.substeps) /\ i < Len(ValueOf(step.substeps))

planWorkflowYield(p, g) ==
    [ id |-> p[g.k].id,
      status |-> IF g.at = "completed" THEN "completed" ELSE "in_progress",
      substepIndex |-> IF g.at = "substep" THEN Present(g.i) ELSE Absent ]

planWorkflowResume_skipsLast(p, g) ==
    IF g.at = "in_progress"
    THEN IF HasSubstep(p[g.k], 1)
         THEN [k |-> g.k, at |-> "substep", i |-> 0]
         ELSE [k |-> g.k, at |-> "completed", i |-> 0]
    ELSE IF g.at = "substep"
    THEN IF HasSubstep(p[g.k], g.i + 2)
         THEN [k |-> g.k, at |-> "substep", i |-> g.i + 1]
         ELSE [k |-> g.k, at |-> "completed", i |-> 0]
    ELSE IF g.k < Len(p)
    THEN [k |-> g.k + 1, at |-> "in_progress", i |-> 0]
    ELSE NoGenerator

planWorkflowResume(p, g) ==
    IF g.at = "in_progress"
    THEN IF HasSubstep(p[g.k], 0)
         THEN [k |-> g.k, at |-> "substep", i |-> 0]
         ELSE [k |-> g.k, at |-> "completed", i |-> 0]
    ELSE IF g.at = "substep"
    THEN IF HasSubstep(p[g.k], g.i + 1)
         THEN [k |-> g.k, at |-> "substep", i |-> g.i + 1]
         ELSE [k |-> g.k, at |-> "completed", i |-> 0]
    ELSE IF g.k < Len(p)
    THEN [k |-> g.k + 1, at |-> "in_progress", i |-> 0]
    ELSE NoGenerator

(* The state updater of PlanMessage *)

newSubsteps_onlyCurrent(substeps, substepIndex) ==
    [ idx \in 1..Len(substeps) |->
        IF idx - 1 = substepIndex THEN "in_progress" ELSE "pending" ]

newSubsteps(substeps, substepIndex) ==
    [ idx \in 1..Len(substeps) |->
        IF idx - 1 = substepIndex THEN "in_progress"
        ELSE IF idx - 1 < substepIndex THEN "completed"
        ELSE substeps[idx] ]

allCompleted(substeps) == [idx \in 1..Len(substeps) |-> "completed"]

updateStep_everyStep(s, update) ==
    IF IsPresent(update.substepIndex) /\ IsPresent(s.substeps)
    THEN [s EXCEPT !.substeps =
              Present(newSubsteps(ValueOf(s.substeps), ValueOf(update.substepIndex)))]
    ELSE IF update.status = "completed" /\ IsPresent(s.substeps)
    THEN [s EXCEPT !.status = update.status,
                   !.substeps = Present(allCompleted(ValueOf(s.substeps)))]
    ELSE [s EXCEPT !.status = update.status]

updateStep_keepsSubsteps(s, update) ==
    IF s.id = update.id
    THEN IF IsPresent(update.substepIndex) /\ IsPresent(s.substeps)
         THEN [s EXCEPT !.substeps =
                   Present(newSubsteps(ValueOf(s.substeps), ValueOf(update.substepIndex)))]
         ELSE [s EXCEPT !.status = update.status]
    ELSE s

updateStep(s, update) ==
    IF s.id = update.id
    THEN IF IsPresent(update.substepIndex) /\ IsPresent(s.substeps)
         THEN [s EXCEPT !.substeps =
                   Present(newSubsteps(ValueOf(s.substeps), ValueOf(update.substepIndex)))]
         ELSE IF update.status = "completed" /\ IsPresent(s.substeps)
         THEN [s EXCEPT !.status = update.status,
                        !.substeps = Present(allCompleted(ValueOf(s.substeps)))]
         ELSE [s EXCEPT !.status = update.status]
    ELSE s

updated(prev, update) == [k \in 1..Len(prev) |-> updateStep(prev[k], update)]

everyCompleted_some(steps) == \E k \in 1..Len(steps) : steps[k].status = "completed"

everyCompleted(steps) == \A k \in 1..Len(steps) : steps[k].status = "completed"

(* The page renders PlanMessage when handleSendMessage appends the plan    *)
(* message; the effect starts trackPlan, which asks the generator for its  *)
(* next update.  A consumer is waiting (its next() is queued), holding an  *)
(* update it has been handed, or finished.                                 *)

Waiting == [at |-> "waiting", update |-> Absent]

Holding(update) == [at |-> "holding", update |-> Present(update)]

Finished == [at |-> "finished", update |-> Absent]

SomeoneHolds == \E c \in 1..Len(consumers) : consumers[c].at = "holding"

InitPlan ==
    /\ workflow = <<>>
    /\ tasks = <<>>
    /\ hoveredNodeId = Absent
    /\ selectedNodeId = Absent
    /\ setHoveredNodeId = Absent
    /\ onNodeSelect = Absent
    /\ elements = NoElements
    /\ pc = "mounted"
    /\ visible = FALSE
    /\ nodes = <<>>
    /\ edges = <<>>
    /\ pending = <<>>
    /\ issued = 0
    /\ resolved = <<>>
    /\ event = NoEvent
    /\ calls = <<>>
    /\ planMessage \in {langingpagePlan(p) : p \in PlanChoices}
    /\ PlanUnmounted
    /\ InputUnmounted
    /\ StreamUnmounted
    /\ TypewriterUnmounted
    /\ PageUnmounted
    /\ NoViewTransitions

trackPlan ==
    /\ consumers' = Append(consumers, Waiting)
    /\ requests' = Append(requests, Len(consumers) + 1)

MountPlanMessage ==
    /\ planPc = "unmounted"
    /\ planPc' = "mounted"
    /\ planSteps' = planMessage
    /\ gen' = planWorkflowStart(planMessage)
    /\ isPlanCompleted' = FALSE
    /\ trackPlan
    /\ UNCHANGED <<vizVars, laterVars, planMessage, emitted, applied, completions>>

RestartEffect ==
    /\ planPc = "mounted"
    /\ ~SomeoneHolds
    /\ Len(consumers) < MaxConsumers
    /\ trackPlan
    /\ UNCHANGED <<vizVars, laterVars, planMessage, planPc, planSteps, gen, emitted, applied,
                   isPlanCompleted, completions>>

TimerFires_broadcast ==
    /\ planPc = "mounted"
    /\ gen.at # "returned"
    /\ requests # <<>>
    /\ ~SomeoneHolds
    /\ consumers' = [c \in 1..Len(consumers) |->
                        IF \E r \in 1..Len(requests) : requests[r] = c
                        THEN Holding(planWorkflowYield(planMessage, gen))
                        ELSE consumers[c]]
    /\ requests' = <<>>
    /\ emitted' = Append(emitted, planWorkflowYield(planMessage, gen))
    /\ gen' = planWorkflowResume(planMessage, gen)
    /\ UNCHANGED <<vizVars, laterVars, planMessage, planPc, planSteps, applied, isPlanCompleted,
                   completions>>

TimerFires ==
    /\ planPc = "mounted"
    /\ gen.at # "returned"
    /\ requests # <<>>
    /\ ~SomeoneHolds
    /\ consumers' = [consumers EXCEPT ![Head(requests)] =
                        Holding(planWorkflowYield(planMessage, gen))]
    /\ requests' = Tail(requests)
    /\ emitted' = Append(emitted, planWorkflowYield(planMessage, gen))
    /\ gen' = planWorkflowResume(planMessage, gen)
    /\ UNCHANGED <<vizVars, laterVars, planMessage, planPc, planSteps, applied, isPlanCompleted,
                   completions>>

GeneratorReturns ==
    /\ planPc = "mounted"
    /\ gen.at = "returned"
    /\ requests # <<>>
    /\ ~SomeoneHolds
    /\ consumers' = [consumers EXCEPT ![Head(requests)] = Finished]
    /\ requests' = Tail(requests)
    /\ UNCHANGED <<vizVars, laterVars, planMessage, planPc, planSteps, gen, emitted, applied,
                   isPlanCompleted, completions>>

ApplyUpdate_once ==
    \E c \in 1..Len(consumers) :
        /\ consumers[c].at = "holding"
        /\ planSteps' = updated(planSteps, ValueOf(consumers[c].update))
        /\ applied' = Append(applied, ValueOf(consumers[c].update))
        /\ IF everyCompleted(planSteps')
           THEN /\ completions' = Append(completions, planSteps')
                /\ isPlanCompleted' = TRUE
           ELSE UNCHANGED <<completions, isPlanCompleted>>
        /\ consumers' = [consumers EXCEPT ![c] = Finished]
        /\ UNCHANGED <<vizVars, laterVars, planMessage, planPc, gen, requests, emitted>>

ApplyUpdate ==
    \E c \in 1..Len(consumers) :
        /\ consumers[c].at = "holding"
        /\ planSteps' = updated(planSteps, ValueOf(consumers[c].update))
        /\ applied' = Append(applied, ValueOf(consumers[c].update))
        /\ IF everyCompleted(planSteps')
           THEN /\ completions' = Append(completions, planSteps')
                /\ isPlanCompleted' = TRUE
           ELSE UNCHANGED <<completions, isPlanCompleted>>
        /\ consumers' = [consumers EXCEPT ![c] = Waiting]
        /\ requests' = Append(requests, c)
        /\ UNCHANGED <<vizVars, laterVars, planMessage, planPc, gen, emitted>>

NextPlan == MountPlanMessage \/ RestartEffect \/ TimerFires \/ GeneratorReturns \/ ApplyUpdate

SpecPlan == InitPlan /\ [][NextPlan]_vars

(* Timers fire and promise continuations run; nothing obliges the page to  *)
(* re-render.                                                              *)

SpecPlanLive ==
    /\ InitPlan
    /\ [][NextPlan]_vars
    /\ WF_vars(TimerFires)
    /\ WF_vars(GeneratorReturns)
    /\ WF_vars(ApplyUpdate)

-----------------------------------------------------------------------------
(* MessageInput (src/components/message-input.tsx): the text a user has    *)
(* typed, the props the parent passes, and the events of the form.         *)

MaxInput == 3

Chars == {"a", " ", "\n"}

Whitespace == {" ", "\n"}

InputValues == SeqsUpTo(Chars, MaxInput)

RECURSIVE trimStart(_)
trimStart(s) ==
    IF s # <<>> /\ Head(s) \in Whitespace THEN trimStart(Tail(s)) ELSE s

RECURSIVE trimEnd(_)
trimEnd(s) ==
    IF s # <<>> /\ s[Len(s)] \in Whitespace THEN trimEnd(SubSeq(s, 1, Len(s) - 1)) ELSE s

trim(s) == trimEnd(trimStart(s))

showStopIcon_ignoresInput == isExecutingPlan

showStopIcon == isExecutingPlan /\ trim(input) = <<>>

buttonDisabled == ~showStopIcon /\ trim(input) = <<>>

icon == IF showStopIcon THEN "Square" ELSE "ArrowUp"

InitInput ==
    /\ workflow = <<>>
    /\ tasks = <<>>
    /\ hoveredNodeId = Absent
    /\ selectedNodeId = Absent
    /\ setHoveredNodeId = Absent
    /\ onNodeSelect = Absent
    /\ elements = NoElements
    /\ pc = "mounted"
    /\ visible = FALSE
    /\ nodes = <<>>
    /\ edges = <<>>
    /\ pending = <<>>
    /\ issued = 0
    /\ resolved = <<>>
    /\ event = NoEvent
    /\ calls = <<>>
    /\ planMessage = <<>>
    /\ PlanUnmounted
    /\ StreamUnmounted
    /\ TypewriterUnmounted
    /\ PageUnmounted
    /\ NoViewTransitions
    /\ input = <<>>
    /\ disabled \in BOOLEAN
    /\ isExecutingPlan \in BOOLEAN
    /\ inputEvent = NoInputEvent
    /\ onSubmitCalls = <<>>

handleSubmit_trimmed ==
    IF trim(input) # <<>>
    THEN /\ onSubmitCalls' = <<trim(input)>>
         /\ input' = <<>>
    ELSE /\ onSubmitCalls' = <<>>
         /\ input' = input

handleSubmit ==
    IF trim(input) # <<>>
    THEN /\ onSubmitCalls' = <<input>>
         /\ input' = <<>>
    ELSE /\ onSubmitCalls' = <<>>
         /\ input' = input

onChange ==
    \E value \in InputValues :
        /\ value # input
        /\ input' = value
        /\ inputEvent' = [kind |-> "change", shiftKey |-> FALSE]
        /\ onSubmitCalls' = <<>>
        /\ UNCHANGED <<vizVars, planVars, streamVars, typewriterVars, pageVars,
                       disabled, isExecutingPlan>>

handleKeyDown ==
    \E key \in {"Enter", "a"}, shiftKey \in BOOLEAN :
        /\ inputEvent' = [kind |-> key, shiftKey |-> shiftKey]
        /\ IF key = "Enter" /\ ~shiftKey
           THEN handleSubmit
           ELSE /\ onSubmitCalls' = <<>>
                /\ input' = input
        /\ UNCHANGED <<vizVars, planVars, streamVars, typewriterVars, pageVars,
                       disabled, isExecutingPlan>>

ClickButton ==
    /\ IF buttonDisabled
       THEN /\ inputEvent' = [kind |-> "click", shiftKey |-> FALSE]
            /\ onSubmitCalls' = <<>>
            /\ input' = input
       ELSE /\ inputEvent' = [kind |-> "submit", shiftKey |-> FALSE]
            /\ handleSubmit
    /\ UNCHANGED <<vizVars, planVars, streamVars, typewriterVars, pageVars,
                   disabled, isExecutingPlan>>

InputPropsChanged ==
    \E d \in BOOLEAN, x \in BOOLEAN :
        /\ <<d, x>> # <<disabled, isExecutingPlan>>
        /\ disabled' = d
        /\ isExecutingPlan' = x
        /\ inputEvent' = [kind |-> "props", shiftKey |-> FALSE]
        /\ onSubmitCalls' = <<>>
        /\ UNCHANGED <<vizVars, planVars, streamVars, typewriterVars, pageVars, input>>

NextInput ==
    \/ onChange
    \/ handleKeyDown
    \/ ClickButton
    \/ InputPropsChanged

SpecInput == InitInput /\ [][NextInput]_vars

-----------------------------------------------------------------------------
(* StreamingText (src/app/page.tsx): the reveal of an AI message, one      *)
(* character per 20 ms timeout.  The two state updates of a timeout are    *)
(* rendered together, and the render's effect sets the next timeout.       *)

MaxText == 4

Texts == SeqsUpTo({"a", "b"}, MaxText)

slice(s, end) == SubSeq(s, 1, IF end < Len(s) THEN end ELSE Len(s))

InitStream ==
    /\ workflow = <<>>
    /\ tasks = <<>>
    /\ hoveredNodeId = Absent
    /\ selectedNodeId = Absent
    /\ setHoveredNodeId = Absent
    /\ onNodeSelect = Absent
    /\ elements = NoElements
    /\ pc = "mounted"
    /\ visible = FALSE
    /\ nodes = <<>>
    /\ edges = <<>>
    /\ pending = <<>>
    /\ issued = 0
    /\ resolved = <<>>
    /\ event = NoEvent
    /\ calls = <<>>
    /\ planMessage = <<>>
    /\ PlanUnmounted
    /\ InputUnmounted
    /\ TypewriterUnmounted
    /\ PageUnmounted
    /\ NoViewTransitions
    /\ text \in Texts
    /\ displayedText = <<>>
    /\ currentIndex = 0
    /\ timer = Absent

streamEffect_always(index) == Present(index)

streamEffect(index) == IF index < Len(text) THEN Present(index) ELSE Absent

StreamMounted ==
    /\ timer = Absent
    /\ currentIndex = 0
    /\ streamEffect(currentIndex) # Absent
    /\ timer' = streamEffect(currentIndex)
    /\ UNCHANGED <<vizVars, planVars, inputVars, typewriterVars, pageVars,
                   text, displayedText, currentIndex>>

StreamTimeout_sameIndex ==
    /\ IsPresent(timer)
    /\ displayedText' = slice(text, ValueOf(timer))
    /\ currentIndex' = ValueOf(timer) + 1
    /\ timer' = streamEffect(currentIndex')
    /\ UNCHANGED <<vizVars, planVars, inputVars, typewriterVars, pageVars, text>>

StreamTimeout ==
    /\ IsPresent(timer)
    /\ displayedText' = slice(text, ValueOf(timer) + 1)
    /\ currentIndex' = ValueOf(timer) + 1
    /\ timer' = streamEffect(currentIndex')
    /\ UNCHANGED <<vizVars, planVars, inputVars, typewriterVars, pageVars, text>>

NextStream ==
    \/ StreamMounted
    \/ StreamTimeout

SpecStream == InitStream /\ [][NextStream]_vars

SpecStreamLive ==
    /\ SpecStream
    /\ WF_vars(StreamMounted)
    /\ WF_vars(StreamTimeout)

-----------------------------------------------------------------------------
(* TypewriterInput (src/app/page.tsx): the placeholder animation of the    *)
(* landing input.  Every run of the typing effect is an async function     *)
(* suspended at an animation or at the two-second pause; an animation      *)
(* calls onUpdate with values that move from its start to its end and then *)
(* resolves.                                                               *)

MaxSubmits == 2

PHRASES ==
    <<<<"l", "a", "n", "d", "i", "n", "g", " ", "p", "a", "g", "e", " ", "t",
        "o", " ", "l", "a", "u", "n", "c", "h", ".", ".", ".">>,
      <<"d", "a", "t", "a", " ", "v", "i", "s", "u", "a", "l", "i", "z", "a",
        "t", "i", "o", "n", " ", "t", "o", "o", "l">>,
      <<"M", "V", "P", " ", "f", "o", "r", " ", "m", "y", " ", "s", "t", "a",
        "r", "t", "u", "p">>,
      <<"p", "r", "o", "t", "o", "t", "y", "p", "e", " ", "t", "o", " ", "v",
        "a", "l", "i", "d", "a", "t", "e", " ", "m", "y", " ", "i", "d", "e",
        "a">>>>

PREFIX ==
    <<"L", "e", "t", "'", "s", " ", "b", "u", "i", "l", "d", " ", "a", " ">>

TypewriterMessages == {"a"}

fullText(phraseIdx) == PREFIX \o PHRASES[phraseIdx + 1]

Run(closurePrefixComplete) ==
    [prefixComplete |-> closurePrefixComplete, stopped |-> FALSE, at |-> "started",
     phraseIdx |-> 0, latest |-> 0, skipped |-> FALSE]

Running(run) == ~run.stopped /\ ~stoppedRef

phraseLoop(run) ==
    IF Running(run)
    THEN [run EXCEPT !.at = "type", !.latest = Len(PREFIX)]
    ELSE [run EXCEPT !.at = "returned"]

runAnimation(run) ==
    IF ~run.prefixComplete /\ Running(run)
    THEN [run EXCEPT !.at = "prefix", !.latest = 0]
    ELSE phraseLoop(run)

AnimatedText(run) == IF run.at = "prefix" THEN PREFIX ELSE fullText(run.phraseIdx)

AnimationEnd(run) ==
    CASE run.at = "prefix" -> Len(PREFIX)
      [] run.at = "type" -> Len(fullText(run.phraseIdx))
      [] run.at = "delete" -> Len(PREFIX)

InitTypewriter ==
    /\ workflow = <<>>
    /\ tasks = <<>>
    /\ hoveredNodeId = Absent
    /\ selectedNodeId = Absent
    /\ setHoveredNodeId = Absent
    /\ onNodeSelect = Absent
    /\ elements = NoElements
    /\ pc = "mounted"
    /\ visible = FALSE
    /\ nodes = <<>>
    /\ edges = <<>>
    /\ pending = <<>>
    /\ issued = 0
    /\ resolved = <<>>
    /\ event = NoEvent
    /\ calls = <<>>
    /\ planMessage = <<>>
    /\ PlanUnmounted
    /\ InputUnmounted
    /\ StreamUnmounted
    /\ PageUnmounted
    /\ NoViewTransitions
    /\ TypewriterUnmounted

TypewriterMounted ==
    /\ runs = <<>>
    /\ runs' = <<runAnimation(Run(prefixComplete))>>
    /\ UNCHANGED <<vizVars, planVars, inputVars, streamVars, pageVars,
                   placeholder, prefixComplete, stoppedRef, submits>>

onUpdate_unlessStopped(r, latest) ==
    /\ runs' = [runs EXCEPT ![r].latest = latest,
                            ![r].skipped = @ \/ runs[r].stopped]
    /\ placeholder' = IF ~runs[r].stopped
                      THEN slice(AnimatedText(runs[r]), latest)
                      ELSE placeholder

onUpdate(r, latest) ==
    /\ runs' = [runs EXCEPT ![r].latest = latest,
                            ![r].skipped = @ \/ ~Running(runs[r])]
    /\ placeholder' = IF Running(runs[r])
                      THEN slice(AnimatedText(runs[r]), latest)
                      ELSE placeholder

AnimationFrame ==
    \E r \in 1..Len(runs) :
        /\ runs[r].at \in {"prefix", "type", "delete"}
        /\ \E latest \in 0..Len(AnimatedText(runs[r])) :
            /\ IF runs[r].at = "delete"
               THEN AnimationEnd(runs[r]) <= latest /\ latest < runs[r].latest
               ELSE runs[r].latest < latest /\ latest <= AnimationEnd(runs[r])
            /\ onUpdate(r, latest)
        /\ UNCHANGED <<vizVars, planVars, inputVars, streamVars, pageVars,
                       prefixComplete, stoppedRef, submits>>

AnimationResolved ==
    \E r \in 1..Len(runs) :
        /\ runs[r].at \in {"prefix", "type", "delete"}
        /\ runs[r].latest = AnimationEnd(runs[r])
        /\ CASE runs[r].at = "prefix" ->
                  /\ prefixComplete' = (prefixComplete \/ Running(runs[r]))
                  /\ runs' = [runs EXCEPT ![r] = phraseLoop(runs[r])]
             [] runs[r].at = "type" ->
                  /\ prefixComplete' = prefixComplete
                  /\ runs' = [runs EXCEPT ![r].at = IF Running(runs[r]) THEN "wait"
                                                                       ELSE "delete"]
             [] runs[r].at = "delete" ->
                  /\ prefixComplete' = prefixComplete
                  /\ runs' = [runs EXCEPT ![r] =
                                phraseLoop([runs[r] EXCEPT
                                    !.phraseIdx = (@ + 1) % Len(PHRASES)])]
        /\ UNCHANGED <<vizVars, planVars, inputVars, streamVars, pageVars,
                       placeholder, stoppedRef, submits>>

PauseOver ==
    \E r \in 1..Len(runs) :
        /\ runs[r].at = "wait"
        /\ runs' = [runs EXCEPT ![r].at = "delete"]
        /\ UNCHANGED <<vizVars, planVars, inputVars, streamVars, pageVars,
                       placeholder, prefixComplete, stoppedRef, submits>>

PrefixCompleteRendered ==
    /\ runs # <<>>
    /\ runs[Len(runs)].prefixComplete # prefixComplete
    /\ runs' = Append([runs EXCEPT ![Len(runs)].stopped = TRUE],
                      runAnimation(Run(prefixComplete)))
    /\ UNCHANGED <<vizVars, planVars, inputVars, streamVars, pageVars,
                   placeholder, prefixComplete, stoppedRef, submits>>

typewriterSubmit_clearsOnly ==
    \E message \in TypewriterMessages :
        /\ runs # <<>>
        /\ Len(submits) < MaxSubmits
        /\ stoppedRef' = stoppedRef
        /\ placeholder' = <<>>
        /\ submits' = Append(submits, message)
        /\ UNCHANGED <<vizVars, planVars, inputVars, streamVars, pageVars,
                       prefixComplete, runs>>

typewriterSubmit ==
    \E message \in TypewriterMessages :
        /\ runs # <<>>
        /\ Len(submits) < MaxSubmits
        /\ stoppedRef' = TRUE
        /\ placeholder' = <<>>
        /\ submits' = Append(submits, message)
        /\ UNCHANGED <<vizVars, planVars, inputVars, streamVars, pageVars,
                       prefixComplete, runs>>

NextTypewriter ==
    \/ TypewriterMounted
    \/ AnimationFrame
    \/ AnimationResolved
    \/ PauseOver
    \/ PrefixCompleteRendered
    \/ typewriterSubmit

SpecTypewriter == InitTypewriter /\ [][NextTypewriter]_vars

-----------------------------------------------------------------------------
(* IndexPage (src/app/page.tsx): handleSendMessage calls, each suspended   *)
(* at one of its timers, and the plan messages the chat displays.  A plan  *)
(* message is a PlanMessage as SpecPlan describes it; the page sees only   *)
(* its onPlanComplete call.  Timers of one length fire in the order they   *)
(* were set: a call set its 2000 ms timer when it called setIsLoading, and *)
(* the 50 ms timers and the view-transition callbacks of the landing page  *)
(* are over before any 2000 ms timer fires.  A plan takes longer than a    *)
(* whole call, so it completes after the calls that were loading when it   *)
(* was mounted.                                                            *)

MaxSends == 3

Contents == {"a", "b"}

aiMessageText ==
    "I'll help you build a landing page like google.com. This will be a fully-featured application with search history."

userMessage(s) == [id |-> s, type |-> "human", content |-> sends[s].content]

aiMessage(s) == [id |-> s, type |-> "ai", content |-> aiMessageText]

planMessageOf(s) == [id |-> s, type |-> "ai", content |-> "langingpagePlan"]

Stage(s) ==
    CASE sends[s].pc = "pending" -> 0
      [] sends[s].pc = "response" -> 1
      [] sends[s].pc = "streaming" -> 2
      [] sends[s].pc = "creating" -> 3
      [] sends[s].pc = "done" -> 4

Loading == {s \in 1..Len(sends) : sends[s].order # 0}

TimerDue(s) ==
    /\ \A e \in 1..Len(sends) : sends[e].pc # "pending" /\ ~sends[e].transition
    /\ \A e \in Loading : sends[e].order < sends[s].order => Stage(e) > Stage(s)

InitPage ==
    /\ workflow = <<>>
    /\ tasks = <<>>
    /\ hoveredNodeId = Absent
    /\ selectedNodeId = Absent
    /\ setHoveredNodeId = Absent
    /\ onNodeSelect = Absent
    /\ elements = NoElements
    /\ pc = "mounted"
    /\ visible = FALSE
    /\ nodes = <<>>
    /\ edges = <<>>
    /\ pending = <<>>
    /\ issued = 0
    /\ resolved = <<>>
    /\ event = NoEvent
    /\ calls = <<>>
    /\ planMessage = <<>>
    /\ PlanUnmounted
    /\ InputUnmounted
    /\ StreamUnmounted
    /\ TypewriterUnmounted
    /\ PageUnmounted
    /\ viewTransitions \in BOOLEAN

startChat(s) ==
    /\ chatStarted' = TRUE
    /\ messages' = <<userMessage(s)>>
    /\ pendingMessage' = ""

handleSendMessage ==
    \E content \in Contents :
        /\ Len(sends) < MaxSends
        /\ LET call == [content |-> content, chatStarted |-> chatStarted,
                        transition |-> FALSE, before |-> messages,
                        alone |-> \A e \in 1..Len(sends) : sends[e].pc = "done"]
               others == [e \in 1..Len(sends) |->
                            IF sends[e].pc = "done" THEN sends[e]
                            ELSE [sends[e] EXCEPT !.alone = FALSE]]
           IN  IF ~chatStarted
               THEN /\ pendingMessage' = content
                    /\ sends' = Append(others, call @@ [pc |-> "pending", order |-> 0])
                    /\ UNCHANGED <<messages, isLoading>>
               ELSE /\ sends' = Append(others, call @@ [pc |-> "response",
                                                        order |-> Cardinality(Loading) + 1])
                    /\ messages' = Append(messages, [id |-> Len(sends) + 1,
                                                     type |-> "human",
                                                     content |-> content])
                    /\ isLoading' = TRUE
                    /\ UNCHANGED pendingMessage
        /\ UNCHANGED <<vizVars, planVars, inputVars, streamVars, typewriterVars,
                       isCreatingPlan, chatStarted, landingpagePlan, planRuns,
                       viewTransitions>>

PendingShown ==
    \E s \in 1..Len(sends) :
        /\ sends[s].pc = "pending"
        /\ \A e \in 1..(s - 1) : sends[e].pc # "pending"
        /\ sends' = [sends EXCEPT ![s].pc = "response",
                                  ![s].order = Cardinality(Loading) + 1,
                                  ![s].transition = viewTransitions]
        /\ IF viewTransitions
           THEN UNCHANGED <<chatStarted, messages, pendingMessage>>
           ELSE startChat(s)
        /\ isLoading' = TRUE
        /\ UNCHANGED <<vizVars, planVars, inputVars, streamVars, typewriterVars,
                       isCreatingPlan, landingpagePlan, planRuns, viewTransitions>>

ViewTransitionCallback ==
    \E s \in 1..Len(sends) :
        /\ sends[s].transition
        /\ \A e \in Loading : sends[e].order < sends[s].order => ~sends[e].transition
        /\ sends' = [sends EXCEPT ![s].transition = FALSE]
        /\ startChat(s)
        /\ UNCHANGED <<vizVars, planVars, inputVars, streamVars, typewriterVars,
                       isLoading, isCreatingPlan, landingpagePlan, planRuns,
                       viewTransitions>>

ResponseArrives ==
    \E s \in 1..Len(sends) :
        /\ sends[s].pc = "response"
        /\ TimerDue(s)
        /\ sends' = [sends EXCEPT ![s].pc = "streaming"]
        /\ messages' = Append(messages, aiMessage(s))
        /\ UNCHANGED <<vizVars, planVars, inputVars, streamVars, typewriterVars,
                       isLoading, isCreatingPlan, chatStarted, landingpagePlan,
                       pendingMessage, planRuns, viewTransitions>>

StreamingOver ==
    \E s \in 1..Len(sends) :
        /\ sends[s].pc = "streaming"
        /\ TimerDue(s)
        /\ sends' = [sends EXCEPT ![s].pc = "creating"]
        /\ isCreatingPlan' = TRUE
        /\ UNCHANGED <<vizVars, planVars, inputVars, streamVars, typewriterVars,
                       messages, isLoading, chatStarted, landingpagePlan,
                       pendingMessage, planRuns, viewTransitions>>

PlanCreated_keepsCreating ==
    \E s \in 1..Len(sends) :
        /\ sends[s].pc = "creating"
        /\ TimerDue(s)
        /\ sends' = [sends EXCEPT ![s].pc = "done"]
        /\ landingpagePlan' = Present(langingpagePlan(plan))
        /\ isPlanCompleted' = FALSE
        /\ messages' = Append(messages, planMessageOf(s))
        /\ planRuns' = Append(planRuns, [at |-> "running",
                                         loading |-> Cardinality(Loading)])
        /\ isCreatingPlan' = isCreatingPlan
        /\ isLoading' = FALSE
        /\ UNCHANGED <<vizVars, planMessage, planPc, planSteps, gen, requests,
                       consumers, emitted, applied, completions, inputVars,
                       streamVars, typewriterVars, chatStarted, pendingMessage,
                       viewTransitions>>

PlanCreated ==
    \E s \in 1..Len(sends) :
        /\ sends[s].pc = "creating"
        /\ TimerDue(s)
        /\ sends' = [sends EXCEPT ![s].pc = "done"]
        /\ landingpagePlan' = Present(langingpagePlan(plan))
        /\ isPlanCompleted' = FALSE
        /\ messages' = Append(messages, planMessageOf(s))
        /\ planRuns' = Append(planRuns, [at |-> "running",
                                         loading |-> Cardinality(Loading)])
        /\ isCreatingPlan' = FALSE
        /\ isLoading' = FALSE
        /\ UNCHANGED <<vizVars, planMessage, planPc, planSteps, gen, requests,
                       consumers, emitted, applied, completions, inputVars,
                       streamVars, typewriterVars, chatStarted, pendingMessage,
                       viewTransitions>>

onPlanComplete ==
    \E p \in 1..Len(planRuns) :
        /\ planRuns[p].at = "running"
        /\ \A q \in 1..(p - 1) : planRuns[q].at = "completed"
        /\ \A s \in Loading : sends[s].order <= planRuns[p].loading => sends[s].pc = "done"
        /\ \A s \in 1..Len(sends) : sends[s].pc # "pending" /\ ~sends[s].transition
        /\ planRuns' = [planRuns EXCEPT ![p].at = "completed"]
        /\ isPlanCompleted' = TRUE
        /\ UNCHANGED <<vizVars, planMessage, planPc, planSteps, gen, requests,
                       consumers, emitted, applied, completions, inputVars,
                       streamVars, typewriterVars, messages, isLoading,
                       isCreatingPlan, chatStarted, landingpagePlan, pendingMessage,
                       sends, viewTransitions>>

hasPlan == landingpagePlan # Absent

executingPlan == isLoading \/ (hasPlan /\ ~isPlanCompleted)

NextPage ==
    \/ handleSendMessage
    \/ PendingShown
    \/ ViewTransitionCallback
    \/ ResponseArrives
    \/ StreamingOver
    \/ PlanCreated
    \/ onPlanComplete

SpecPage == InitPage /\ [][NextPage]_vars

-----------------------------------------------------------------------------
(* Vocabulary of the properties.  These read the inputs and the rendered   *)
(* elements directly and use none of the operators of the transform.       *)

NodeIndexes == 1..Len(workflow)

AssociatedTasks(k) == {i \in 1..Len(tasks) : tasks[i].workflowStepId = workflow[k].id}

StatusesAt(k) == {tasks[i].status : i \in AssociatedTasks(k)}

DerivedStatus(k) == elements.nodes[k].data.nodeStatus

ActiveStatuses == {"in_progress", "is_bot_processing"}

HasActive(k) == StatusesAt(k) \cap ActiveStatuses # {}

AllDone(k) == AssociatedTasks(k) # {} /\ StatusesAt(k) = {"done"}

\* C1: a node with at least one in_progress or is_bot_processing task is
\* given nodeStatus in_progress, whatever its other tasks are.
C1_ActiveDominates ==
    Rendered =>
        /\ Len(elements.nodes) = Len(workflow)
        /\ \A k \in NodeIndexes : HasActive(k) => DerivedStatus(k) = "in_progress"

C1_Witness ==
    /\ Rendered
    /\ \E k \in NodeIndexes :
        /\ "is_bot_processing" \in StatusesAt(k)
        /\ StatusesAt(k) \cap {"done", "closed", "awaiting_trigger", "todo"} # {}
        /\ DerivedStatus(k) = "in_progress"

\* C2: a node with at least one task, all of them done, is given done; a node
\* with a done task and some task that is not done is never given done.
C2_AllDoneIsDone ==
    Rendered =>
        \A k \in NodeIndexes :
            /\ AllDone(k) => DerivedStatus(k) = "done"
            /\ ("done" \in StatusesAt(k) /\ StatusesAt(k) # {"done"})
                   => DerivedStatus(k) # "done"

C2_Witness ==
    /\ Rendered
    /\ \E k1, k2 \in NodeIndexes :
        /\ AllDone(k1) /\ DerivedStatus(k1) = "done"
        /\ "done" \in StatusesAt(k2) /\ StatusesAt(k2) # {"done"}
        /\ DerivedStatus(k2) # "done"

\* C3: a node with no associated task (empty task list included) is given
\* todo.
C3_NoTasksIsTodo ==
    Rendered =>
        \A k \in NodeIndexes : AssociatedTasks(k) = {} => DerivedStatus(k) = "todo"

C3_Witness ==
    /\ Rendered
    /\ tasks # <<>>
    /\ \E k \in NodeIndexes : AssociatedTasks(k) = {} /\ DerivedStatus(k) = "todo"

\* C4: no active task, not all done, at least one closed task: the node is
\* given closed, also when an awaiting_trigger task or a done task is present.
C4_ClosedBeforeAwaiting ==
    Rendered =>
        \A k \in NodeIndexes :
            (~HasActive(k) /\ ~AllDone(k) /\ "closed" \in StatusesAt(k))
                => DerivedStatus(k) = "closed"

C4_Witness ==
    /\ Rendered
    /\ \E k \in NodeIndexes :
        /\ ~HasActive(k)
        /\ {"closed", "awaiting_trigger"} \subseteq StatusesAt(k)
        /\ DerivedStatus(k) = "closed"

\* C5: no active task, not all done, no closed task, at least one
\* awaiting_trigger task: the node is given awaiting_trigger.
C5_AwaitingTrigger ==
    Rendered =>
        \A k \in NodeIndexes :
            (/\ ~HasActive(k)
             /\ ~AllDone(k)
             /\ "closed" \notin StatusesAt(k)
             /\ "awaiting_trigger" \in StatusesAt(k))
                => DerivedStatus(k) = "awaiting_trigger"

C5_Witness ==
    /\ Rendered
    /\ \E k \in NodeIndexes :
        /\ StatusesAt(k) = {"done", "awaiting_trigger", "todo"}
        /\ DerivedStatus(k) = "awaiting_trigger"

\* C6: the aggregation is total and falls back to todo: tasks that are all
\* todo or done with at least one todo give todo, and every node of every
\* input is given one of the six statuses.
C6_FallbackTodo ==
    Rendered =>
        \A k \in NodeIndexes :
            /\ DerivedStatus(k) \in ProjectStatus
            /\ (StatusesAt(k) \subseteq {"todo", "done"} /\ "todo" \in StatusesAt(k))
                   => DerivedStatus(k) = "todo"

C6_Witness ==
    /\ Rendered
    /\ \E k \in NodeIndexes :
        StatusesAt(k) = {"done", "todo"} /\ DerivedStatus(k) = "todo"

StatusMap == [k \in 1..Len(elements.nodes) |-> elements.nodes[k].data.nodeStatus]

Occurrences(s, x) == Cardinality({i \in 1..Len(s) : s[i] = x})

IsPermutation(s, t) ==
    /\ Len(s) = Len(t)
    /\ \A i \in 1..Len(s) : Occurrences(s, s[i]) = Occurrences(t, s[i])

\* C7: the derived statuses do not depend on the order of the task list: a
\* step that replaces the task list by a permutation of it leaves every
\* node's nodeStatus as it was.
C7_OrderIndependent ==
    [][(Rendered /\ Rendered' /\ workflow' = workflow /\ IsPermutation(tasks, tasks'))
          => StatusMap' = StatusMap]_vars

C7_Witness ==
    /\ pc = "rerendered"
    /\ \E k \in NodeIndexes :
        \E i, j \in AssociatedTasks(k) :
            /\ i < j
            /\ tasks[i].status = "done"
            /\ tasks[j].status = "in_progress"
            /\ DerivedStatus(k) = "in_progress"

TasksFor(taskList, id) == SelectSeq(taskList, LAMBDA t : t.workflowStepId = id)

\* C8: a node's nodeStatus and nodeTasks depend only on the tasks whose
\* workflowStepId is the node's id: a step that adds, removes or changes
\* tasks of other ids leaves them as they were, and a task whose id matches
\* no node is in no node's nodeTasks.
C8_OtherTasksIgnored ==
    [][(Rendered /\ Rendered' /\ workflow' = workflow)
          => \A k \in NodeIndexes :
                /\ elements'.nodes[k].data.nodeTasks = TasksFor(tasks', workflow[k].id)
                /\ TasksFor(tasks', workflow[k].id) = TasksFor(tasks, workflow[k].id)
                       => /\ elements'.nodes[k].data.nodeStatus = elements.nodes[k].data.nodeStatus
                          /\ elements'.nodes[k].data.nodeTasks = elements.nodes[k].data.nodeTasks]_vars

C8_Witness ==
    /\ pc = "rerendered"
    /\ \E k \in NodeIndexes :
        /\ AssociatedTasks(k) # {}
        /\ DerivedStatus(k) = "todo"
        /\ \E i \in 1..Len(tasks) :
            /\ i \notin AssociatedTasks(k)
            /\ tasks[i].status = "in_progress"
            /\ \A n \in NodeIndexes : tasks[i].workflowStepId # workflow[n].id

DepsAt(k) ==
    IF IsPresent(workflow[k].depends_on) THEN ValueOf(workflow[k].depends_on) ELSE <<>>

DeclaredOccurrences(d, n) ==
    UNION { {<<k, j>> : j \in {j \in 1..Len(DepsAt(k)) : DepsAt(k)[j] = d}} :
            k \in {k \in NodeIndexes : workflow[k].id = n} }

EdgesBetween(d, n) ==
    {i \in 1..Len(elements.edges) :
        elements.edges[i].source = d /\ elements.edges[i].target = n}

IdsInPlay ==
    {workflow[k].id : k \in NodeIndexes}
        \cup UNION {{DepsAt(k)[j] : j \in 1..Len(DepsAt(k))} : k \in NodeIndexes}
        \cup {elements.edges[i].source : i \in 1..Len(elements.edges)}
        \cup {elements.edges[i].target : i \in 1..Len(elements.edges)}

AllDeclared == UNION {{<<k, j>> : j \in 1..Len(DepsAt(k))} : k \in NodeIndexes}

\* C9 as amended: one edge for each occurrence of a dependency id in a
\* node's depends_on list, from the dependency to the node, and no other
\* edge; a node whose depends_on is absent or empty contributes none.
C9_EdgePerDeclaredOccurrence ==
    Rendered =>
        /\ \A d, n \in IdsInPlay :
               Cardinality(EdgesBetween(d, n)) = Cardinality(DeclaredOccurrences(d, n))
        /\ Len(elements.edges) = Cardinality(AllDeclared)

WellFormed ==
    /\ \A k1, k2 \in NodeIndexes : workflow[k1].id = workflow[k2].id => k1 = k2
    /\ \A k \in NodeIndexes :
           \A j \in 1..Len(DepsAt(k)) : \E k0 \in 1..(k - 1) : workflow[k0].id = DepsAt(k)[j]

\* C9 as stated: exactly one edge for each (dependency, node) pair that some
\* depends_on declares, and none for any other pair.  It is stated here for
\* the workflows in which it is least demanding: unique node ids and every
\* dependency naming an earlier node (no dangling reference, no cycle).
C9_OneEdgePerPair ==
    (Rendered /\ WellFormed) =>
        \A d, n \in IdsInPlay :
            Cardinality(EdgesBetween(d, n)) = IF DeclaredOccurrences(d, n) # {} THEN 1 ELSE 0

C9_Witness ==
    /\ Rendered
    /\ workflow = <<PlainNode("A"), DependentNode("B", <<"A">>)>>
    /\ Len(elements.edges) = 1
    /\ elements.edges[1].source = "A"
    /\ elements.edges[1].target = "B"

MockRendered == pc = "rerendered" /\ workflow = mockWorkflow /\ tasks = <<>>

AllTodo == \A k \in 1..Len(elements.nodes) : elements.nodes[k].data.nodeStatus = "todo"

\* C10 as amended: the six-node mock workflow with an empty task list gives
\* six nodes, all todo, and six edges, one per dependency entry (end has two).
C10_MockSixEdges ==
    MockRendered =>
        /\ Len(elements.nodes) = 6
        /\ AllTodo
        /\ Len(elements.edges) = 6
        /\ {<<elements.edges[i].source, elements.edges[i].target>> : i \in 1..Len(elements.edges)}
             = { <<"start", "process">>, <<"process", "decision">>, <<"decision", "success">>,
                 <<"decision", "failure">>, <<"success", "end">>, <<"failure", "end">> }

\* C10 as stated: six nodes, all todo, and five edges.
C10_MockFiveEdges ==
    MockRendered => (Len(elements.nodes) = 6 /\ AllTodo /\ Len(elements.edges) = 5)

C10_Witness == MockRendered /\ Len(elements.nodes) = 6 /\ AllTodo

-----------------------------------------------------------------------------
(* Properties of the component with its layout calls (SpecViz) *)

Snapshots ==
    {pending[i] : i \in 1..Len(pending)} \cup {resolved[i] : i \in 1..Len(resolved)}

StatusMapping(r) ==
    [k \in 1..Len(r.children) |-> <<r.children[k].id, r.children[k].data.nodeStatus>>]

SameGraphInputs(r1, r2) ==
    r1.inputs.workflow = r2.inputs.workflow /\ r1.inputs.tasks = r2.inputs.tasks

C12_HoverCalls ==
    event.kind \in {"enter", "leave"} =>
        \E k \in 1..Len(nodes) :
            /\ nodes[k].id = event.id
            /\ IF nodes[k].data.setHoveredNodeId = Absent
               THEN calls = <<>>
               ELSE calls = << [ fn |-> nodes[k].data.setHoveredNodeId[1],
                                 arg |-> IF event.kind = "enter"
                                         THEN Present(event.id) ELSE Absent ] >>

C12_Witness ==
    /\ event.kind = "leave"
    /\ Len(calls) = 1
    /\ calls[1].fn = "setHoveredNodeId"
    /\ calls[1].arg = Absent

\* C13: a click on node n calls the supplied onNodeSelect exactly once with
\* n's id and does nothing else; without onNodeSelect it calls nothing and
\* changes no state.
C13_ClickCalls ==
    [][event'.kind = "click" =>
          /\ \E k \in 1..Len(nodes) : nodes[k].id = event'.id
          /\ calls' = IF onNodeSelect = Absent
                      THEN <<>>
                      ELSE <<[fn |-> onNodeSelect[1], arg |-> Present(event'.id)]>>
          /\ UNCHANGED <<propVars, elements, pc, visible, nodes, edges, pending, issued,
                         resolved>>]_vars

C13_Witness ==
    /\ event.kind = "click"
    /\ Len(calls) = 1
    /\ calls[1].fn = "onNodeSelect"
    /\ calls[1].arg = Present(event.id)
    /\ selectedNodeId # Present(event.id)

\* C14: the renderer never changes the hovered or selected id itself:
\* pointer and click events leave the props and the component state (nodes,
\* edges, visible) as they were, layout settlements leave the props as they
\* were, and the props change only in a step of the owner.
C14_OwnerOwnsInteractionState ==
    [][/\ event'.kind \in {"enter", "leave", "click"}
            => UNCHANGED <<hoveredNodeId, selectedNodeId, visible, nodes, edges>>
       /\ event'.kind \in {"resolved", "rejected", "effect"}
            => UNCHANGED <<hoveredNodeId, selectedNodeId>>
       /\ (hoveredNodeId' # hoveredNodeId \/ selectedNodeId' # selectedNodeId)
            => event'.kind = "props"]_vars

C14_Witness ==
    /\ event.kind = "enter"
    /\ calls # <<>>
    /\ hoveredNodeId # Present(event.id)
    /\ \A k \in 1..Len(nodes) : nodes[k].data.hoveredNodeId # Present(event.id)

C16_VisibleWhilePending ==
    /\ pending # <<>> => visible
    /\ ~visible => (pc = "mounted" /\ issued = 0)

\* C16 as stated: while a layout call is pending, visible is false.
C16_HiddenWhilePending == pending # <<>> => ~visible

C16_Witness ==
    /\ pending # <<>>
    /\ visible
    /\ resolved = <<>>
    /\ nodes = <<>>

\* C17 as amended: while no layout call has resolved (calls pending forever
\* or rejected), the displayed node and edge lists stay empty; visible is
\* nevertheless true from the first effect run on.
C17_NothingDrawnWithoutResolution ==
    resolved = <<>> =>
        /\ nodes = <<>>
        /\ edges = <<>>
        /\ issued > 0 => visible

\* C17 as stated: as long as no layout call has resolved, visible is false.
C17_NeverVisibleWithoutResolution == resolved = <<>> => ~visible

C17_Witness ==
    /\ event.kind = "rejected"
    /\ resolved = <<>>
    /\ pending = <<>>
    /\ issued > 1
    /\ visible
    /\ nodes = <<>>

ShowsResultOf(ns, es, r) ==
    /\ es = r.edges
    /\ Len(ns) = Len(r.children)
    /\ \A k \in 1..Len(ns) : ns[k].id = r.children[k].id /\ ns[k].data = r.children[k].data

\* C18: layout responses are applied in resolution order with no sequencing:
\* whichever pending call resolves, its nodes and edges (with the hovered and
\* selected ids of its own inputs) become the displayed ones, also when a
\* later-requested call has resolved before it; no other event changes them.
C18_LastResolvedWins ==
    [][/\ event'.kind = "resolved"
            => \E i \in 1..Len(pending) :
                  /\ pending' = Without(pending, i)
                  /\ ShowsResultOf(nodes', edges', pending[i])
       /\ event'.kind \in {"effect", "props", "rejected", "enter", "leave", "click"}
            => UNCHANGED <<nodes, edges>>]_vars

C18_Witness ==
    /\ event.kind = "resolved"
    /\ pending = <<>>
    /\ Len(resolved) > 1
    /\ resolved[Len(resolved) - 1].seq = issued
    /\ resolved[Len(resolved)].seq < issued
    /\ ShowsResultOf(nodes, edges, resolved[Len(resolved)])
    /\ \E k \in 1..Len(nodes) : nodes[k].data.hoveredNodeId # hoveredNodeId

EffectProps == <<workflow, tasks, hoveredNodeId, selectedNodeId, setHoveredNodeId>>

CoversInputs(r, wf, taskList, hovered, setHovered, selected) ==
    /\ [k \in 1..Len(r.children) |-> r.children[k].id] = [k \in 1..Len(wf) |-> wf[k].id]
    /\ \A k \in 1..Len(r.children) :
          /\ r.children[k].data.hoveredNodeId = hovered
          /\ r.children[k].data.setHoveredNodeId = setHovered
          /\ r.children[k].data.selectedNodeId = selected
          /\ r.children[k].data.nodeTasks = TasksFor(taskList, wf[k].id)
    /\ Len(r.edges) = Len(r.elkEdges)
    /\ \A k \in 1..Len(wf) :
          IsPresent(wf[k].depends_on) =>
              \A j \in 1..Len(ValueOf(wf[k].depends_on)) :
                  \E e \in 1..Len(r.elkEdges) :
                      /\ r.elkEdges[e].sources = <<ValueOf(wf[k].depends_on)[j]>>
                      /\ r.elkEdges[e].targets = <<wf[k].id>>

\* C19: every change of workflow, tasks, hoveredNodeId, selectedNodeId or
\* setHoveredNodeId issues exactly one new layout request over all nodes and
\* edges recomputed from the current inputs, and leaves the requests still
\* pending in place; the pending requests can be as many as the calls made.
C19_OneRequestPerChange ==
    [][/\ EffectProps' # EffectProps => event'.kind = "props"
       /\ event'.kind \in {"effect", "props"}
            => /\ Len(pending') = Len(pending) + 1
               /\ issued' = issued + 1
               /\ SubSeq(pending', 1, Len(pending)) = pending
               /\ CoversInputs(pending'[Len(pending')], workflow', tasks', hoveredNodeId',
                               setHoveredNodeId', selectedNodeId')]_vars

C19_Witness ==
    /\ event.kind = "props"
    /\ Len(pending) = issued
    /\ Len(pending) > 2

\* C20: unpositioned nodes are never displayed: the displayed node list is
\* empty until a layout call has resolved, and afterwards it is the children
\* of the latest resolved call, each with the position of the layout result
\* and the anchors the response handler adds.
C20_OnlyLaidOutNodesShown ==
    IF resolved = <<>>
    THEN nodes = <<>>
    ELSE /\ Len(nodes) = Len(resolved[Len(resolved)].children)
         /\ \A k \in 1..Len(nodes) :
               /\ nodes[k].id = resolved[Len(resolved)].children[k].id
               /\ {"targetPosition", "sourcePosition", "width", "height"}
                      \subseteq DOMAIN nodes[k]
               /\ \E outcome \in ElkOutcomes :
                      nodes[k].position
                          = [ x |-> OrZero(elkLayout(resolved[Len(resolved)], outcome)[k].x),
                              y |-> OrZero(elkLayout(resolved[Len(resolved)], outcome)[k].y) ]

C20_Witness ==
    /\ resolved # <<>>
    /\ Len(nodes) > 1
    /\ \E k \in 1..Len(nodes) : nodes[k].position.y > 0

-----------------------------------------------------------------------------
(* Properties of the transform on malformed workflows, and of edge ids *)

\* C21: malformed graphs pass through unvalidated: every depends_on entry
\* gives an edge from that id, also when no node has the id, and no node is
\* added or removed for it; every input node gives one output node, also
\* when ids repeat, and nodes of the same id carry the same tasks and status.
C21_MalformedPassedThrough ==
    Rendered =>
        /\ Len(elements.nodes) = Len(workflow)
        /\ \A k \in NodeIndexes :
               /\ elements.nodes[k].id = workflow[k].id
               /\ elements.nodes[k].data.nodeTasks = TasksFor(tasks, workflow[k].id)
        /\ \A k1, k2 \in NodeIndexes :
               workflow[k1].id = workflow[k2].id
                   => elements.nodes[k1].data = elements.nodes[k2].data
        /\ Len(elements.edges) = Cardinality(AllDeclared)
        /\ \A k \in NodeIndexes :
               \A j \in 1..Len(DepsAt(k)) :
                   \E i \in 1..Len(elements.edges) :
                       /\ elements.edges[i].source = DepsAt(k)[j]
                       /\ elements.edges[i].target = workflow[k].id

C21_Witness ==
    /\ Rendered
    /\ workflow = <<DependentNode("A", <<"B">>), DependentNode("A", <<"B">>)>>
    /\ Len(elements.nodes) = 2
    /\ elements.nodes[1].data.nodeStatus = "in_progress"
    /\ elements.nodes[2].data.nodeStatus = "in_progress"
    /\ Len(elements.nodes[2].data.nodeTasks) = 2
    /\ Len(elements.edges) = 2
    /\ elements.edges[1].source = "B"
    /\ \A k \in 1..Len(elements.nodes) : elements.nodes[k].id # "B"

DisplayedIds == {nodes[k].id : k \in 1..Len(nodes)}

\* C22: displayed nodes and displayed edges come from one input snapshot:
\* both are empty until a layout resolves and afterwards both are those of
\* the latest resolved call, whose edges are the edges derived from that
\* call's inputs; with well-formed input every displayed edge starts and
\* ends at a displayed node.
C22_NodesAndEdgesFromOneSnapshot ==
    /\ resolved = <<>> => (nodes = <<>> /\ edges = <<>>)
    /\ resolved # <<>> =>
          /\ ShowsResultOf(nodes, edges, resolved[Len(resolved)])
          /\ edges = transformButterflowToElements(
                         resolved[Len(resolved)].inputs.workflow,
                         resolved[Len(resolved)].inputs.tasks,
                         resolved[Len(resolved)].inputs.hoveredNodeId,
                         resolved[Len(resolved)].inputs.setHoveredNodeId,
                         resolved[Len(resolved)].inputs.selectedNodeId).edges
          /\ [k \in 1..Len(nodes) |-> nodes[k].id]
                 = [k \in 1..Len(resolved[Len(resolved)].inputs.workflow) |->
                        resolved[Len(resolved)].inputs.workflow[k].id]
    /\ \A i \in 1..Len(edges) :
          edges[i].source \in DisplayedIds /\ edges[i].target \in DisplayedIds

C22_Witness ==
    /\ Len(resolved) > 1
    /\ Len(workflow) = 2
    /\ Len(elements.edges) = 1
    /\ Len(nodes) = 1
    /\ edges = <<>>
    /\ Len(resolved[Len(resolved) - 1].edges) = 1

\* C23 as amended (node ids without '-'): two edges of one transform call
\* have the same id exactly when they have the same source and the same
\* target, so an id is emitted once for each time its (dependency, node)
\* pair is declared; the ids are pairwise distinct when node ids are unique
\* and no depends_on list repeats an id.
C23_EdgeIdNamesThePair ==
    Rendered =>
        /\ \A i, j \in 1..Len(elements.edges) :
               elements.edges[i].id = elements.edges[j].id
                   <=> /\ elements.edges[i].source = elements.edges[j].source
                       /\ elements.edges[i].target = elements.edges[j].target
        /\ \A i \in 1..Len(elements.edges) :
               Cardinality({j \in 1..Len(elements.edges) :
                               elements.edges[j].id = elements.edges[i].id})
                   = Cardinality(DeclaredOccurrences(elements.edges[i].source,
                                                     elements.edges[i].target))

\* C23 as stated: all edges of one transform call have pairwise distinct
\* ids.  It is stated here for workflows with unique node ids whose
\* dependencies name earlier nodes, depends_on lists that repeat an id
\* included.
C23_DistinctEdgeIds ==
    (Rendered /\ WellFormed) =>
        \A i, j \in 1..Len(elements.edges) :
            elements.edges[i].id = elements.edges[j].id => i = j

C23_Witness ==
    /\ Rendered
    /\ workflow = <<DependentNode("A", <<"B">>), DependentNode("B", <<"A", "A">>)>>
    /\ Len(elements.edges) = 3
    /\ elements.edges[1].id = "eB-A"
    /\ elements.edges[2].id = "eA-B"
    /\ elements.edges[3].id = "eA-B"

-----------------------------------------------------------------------------
(* Properties of planWorkflow and PlanMessage (SpecPlan, SpecPlanLive) *)

PlanMounted == planPc = "mounted"

SubstepsOf(step) == IF IsPresent(step.substeps) THEN ValueOf(step.substeps) ELSE <<>>

StepUpdates(step) ==
    << [id |-> step.id, status |-> "in_progress", substepIndex |-> Absent] >>
        \o [ n \in 1..Len(SubstepsOf(step)) |->
               [id |-> step.id, status |-> "in_progress", substepIndex |-> Present(n - 1)] ]
        \o << [id |-> step.id, status |-> "completed", substepIndex |-> Absent] >>

RECURSIVE AllUpdates(_)
AllUpdates(p) == IF p = <<>> THEN <<>> ELSE StepUpdates(Head(p)) \o AllUpdates(Tail(p))

IsPrefix(a, b) == Len(a) <= Len(b) /\ SubSeq(b, 1, Len(a)) = a

\* C24: planWorkflow yields, for each step in list order, the step's
\* in_progress update, then one in_progress update per substep index in
\* ascending order, then the step's completed update; what has been yielded
\* is always a prefix of that one sequence, and all of it once the
\* generator has returned.
C24_FixedOrder ==
    PlanMounted =>
        /\ IsPrefix(emitted, AllUpdates(planMessage))
        /\ gen.at = "returned" => emitted = AllUpdates(planMessage)

C24_Witness ==
    /\ PlanMounted
    /\ planMessage = langingpagePlan(plan)
    /\ gen.at = "returned"
    /\ emitted = AllUpdates(planMessage)
    /\ Len(emitted) > 2 * Len(planMessage)

Rank(status) == IF status = "pending" THEN 0 ELSE IF status = "in_progress" THEN 1 ELSE 2

MovesForward(old, new) == Rank(old) <= Rank(new) /\ Rank(new) <= Rank(old) + 1

\* C25: step and substep statuses only move forward, pending to in_progress
\* to completed, one stage at a time and never back; an update leaves every
\* step it does not name as it was.
C25_StatusesMoveForward ==
    [][(PlanMounted /\ PlanMounted') =>
          /\ Len(planSteps') = Len(planSteps)
          /\ \A k \in 1..Len(planSteps) :
                /\ planSteps'[k].id = planSteps[k].id
                /\ MovesForward(planSteps[k].status, planSteps'[k].status)
                /\ Len(SubstepsOf(planSteps'[k])) = Len(SubstepsOf(planSteps[k]))
                /\ \A j \in 1..Len(SubstepsOf(planSteps[k])) :
                      MovesForward(SubstepsOf(planSteps[k])[j], SubstepsOf(planSteps'[k])[j])
                /\ (applied' # applied /\ planSteps[k].id # applied'[Len(applied')].id)
                      => planSteps'[k] = planSteps[k]
                /\ applied' = applied => planSteps'[k] = planSteps[k]]_vars

C25_Witness ==
    /\ PlanMounted
    /\ Len(planSteps) > 1
    /\ planSteps[1].status = "completed"
    /\ planSteps[2].status = "in_progress"
    /\ Len(SubstepsOf(planSteps[2])) > 1
    /\ SubstepsOf(planSteps[2])[1] = "completed"
    /\ SubstepsOf(planSteps[2])[2] = "in_progress"

\* C26: at most one step is in_progress, and when step k is, every step
\* before it is completed and every step after it is pending.
C26_OneStepInProgress ==
    PlanMounted =>
        \A k \in 1..Len(planSteps) :
            planSteps[k].status = "in_progress" =>
                /\ \A j \in 1..(k - 1) : planSteps[j].status = "completed"
                /\ \A j \in (k + 1)..Len(planSteps) : planSteps[j].status = "pending"

C26_Witness ==
    /\ PlanMounted
    /\ Len(planSteps) > 2
    /\ planSteps[1].status = "completed"
    /\ planSteps[2].status = "in_progress"
    /\ planSteps[3].status = "pending"
    /\ Len(consumers) > 1

SubstepsConsistent(step) ==
    /\ \A i, j \in 1..Len(SubstepsOf(step)) :
           (SubstepsOf(step)[i] = "in_progress" /\ SubstepsOf(step)[j] = "in_progress") => i = j
    /\ (\E j \in 1..Len(SubstepsOf(step)) : SubstepsOf(step)[j] = "in_progress")
           => step.status = "in_progress"
    /\ step.status = "completed"
           => \A j \in 1..Len(SubstepsOf(step)) : SubstepsOf(step)[j] = "completed"

\* C27: a substep update with index i sets substep i to in_progress, the
\* substeps before it to completed and leaves the later ones as they were;
\* a step's completed update marks all its substeps completed; so a step
\* has at most one in_progress substep, only while the step itself is
\* in_progress, and a completed step has only completed substeps.
C27_SubstepConsistency ==
    [][PlanMounted' =>
          /\ \A k \in 1..Len(planSteps') : SubstepsConsistent(planSteps'[k])
          /\ applied' # applied =>
                \A k \in 1..Len(planSteps) :
                    planSteps[k].id = applied'[Len(applied')].id =>
                        /\ IsPresent(applied'[Len(applied')].substepIndex) =>
                              \A j \in 1..Len(SubstepsOf(planSteps[k])) :
                                  SubstepsOf(planSteps'[k])[j] =
                                      IF j - 1 = ValueOf(applied'[Len(applied')].substepIndex)
                                      THEN "in_progress"
                                      ELSE IF j - 1 < ValueOf(applied'[Len(applied')].substepIndex)
                                      THEN "completed"
                                      ELSE SubstepsOf(planSteps[k])[j]
                        /\ applied'[Len(applied')].status = "completed" =>
                              \A j \in 1..Len(SubstepsOf(planSteps[k])) :
                                  SubstepsOf(planSteps'[k])[j] = "completed"]_vars

C27_Witness ==
    /\ PlanMounted
    /\ applied # <<>>
    /\ applied[Len(applied)].status = "completed"
    /\ \E k \in 1..Len(planSteps) :
          /\ planSteps[k].id = applied[Len(applied)].id
          /\ planSteps[k].status = "completed"
          /\ Len(SubstepsOf(planSteps[k])) > 1
          /\ \A j \in 1..Len(SubstepsOf(planSteps[k])) : SubstepsOf(planSteps[k])[j] = "completed"
    /\ ~everyCompleted(planSteps)

\* C28: onPlanComplete is called only with every step completed, and once
\* per plan run: when the completed update of the last step is applied, and
\* neither before nor again.
C28_CompleteOnceWhenAllCompleted ==
    PlanMounted =>
        /\ \A n \in 1..Len(completions) : everyCompleted(completions[n])
        /\ Len(completions) <= 1
        /\ completions # <<>> <=> everyCompleted(planSteps)
        /\ completions # <<>> <=> applied = AllUpdates(planMessage)

C28_Witness ==
    /\ PlanMounted
    /\ Len(completions) = 1
    /\ completions[1] = planSteps
    /\ Len(planSteps) > 1
    /\ Len(consumers) > 1
    /\ \A c \in 1..Len(consumers) : consumers[c].at = "finished"

PlanDone ==
    /\ gen.at = "returned"
    /\ \A k \in 1..Len(planSteps) :
          /\ planSteps[k].status = "completed"
          /\ \A j \in 1..Len(SubstepsOf(planSteps[k])) : SubstepsOf(planSteps[k])[j] = "completed"
    /\ completions # <<>>
    /\ isPlanCompleted

\* C29: once the plan message is mounted, with timers firing and
\* continuations running, the generator is eventually exhausted, every step
\* and substep is completed, onPlanComplete has been called and
\* isPlanCompleted is true, and it stays so.
C29_PlanTerminates == PlanMounted ~> [](PlanDone)

C29_Witness ==
    /\ PlanMounted
    /\ PlanDone
    /\ requests = <<>>
    /\ Len(applied) > 2 * Len(planSteps)

RECURSIVE ApplyAll(_, _)
ApplyAll(steps, updates) ==
    IF updates = <<>> THEN steps ELSE ApplyAll(updated(steps, Head(updates)), Tail(updates))

HeldUpdates ==
    SelectSeq([c \in 1..Len(consumers) |-> consumers[c].update], LAMBDA u : IsPresent(u))

\* C30: with any number of trackPlan loops started on the one generator,
\* every yielded update is applied to planSteps exactly once and in the
\* order it was yielded: the applied updates followed by the one update (if
\* any) a loop is holding are the yielded updates, and planSteps is the
\* plan with the applied updates applied in that order.
C30_EachUpdateAppliedOnceInOrder ==
    PlanMounted =>
        /\ Len(HeldUpdates) <= 1
        /\ emitted = applied \o [n \in 1..Len(HeldUpdates) |-> ValueOf(HeldUpdates[n])]
        /\ planSteps = ApplyAll(planMessage, applied)

C30_Witness ==
    /\ PlanMounted
    /\ Len(consumers) > 2
    /\ Len(applied) > Len(consumers)
    /\ gen.at # "returned"
    /\ requests = <<2, 3, 1>>

-----------------------------------------------------------------------------
(* MessageInput: C35, C36, C37 *)

Blank(value) == \A i \in 1..Len(value) : value[i] \in {" ", "\n"}

SubmitEvent ==
    \/ inputEvent'.kind = "submit"
    \/ inputEvent'.kind = "Enter" /\ ~inputEvent'.shiftKey

\* C35: onSubmit is called only by a submit event (the button's form submit
\* or Enter without Shift) on an input with a non-whitespace character; it
\* is then called exactly once with the input as typed, untrimmed, and the
\* input becomes empty.  A submit event on an empty or whitespace-only
\* input calls nothing and leaves the input as it is, and no other event,
\* Shift+Enter included, calls onSubmit.
C35_SubmitsNonBlankInputOnce ==
    [][/\ (SubmitEvent /\ ~Blank(input)) => (onSubmitCalls' = <<input>> /\ input' = <<>>)
       /\ (SubmitEvent /\ Blank(input)) => (onSubmitCalls' = <<>> /\ input' = input)
       /\ ~SubmitEvent => onSubmitCalls' = <<>>]_vars

C35_Witness ==
    /\ inputEvent = [kind |-> "Enter", shiftKey |-> FALSE]
    /\ onSubmitCalls = << <<" ", "a", "\n">> >>
    /\ input = <<>>

\* C36: while the disabled prop is true no event makes MessageInput call
\* onSubmit, whatever the input and whichever way it is submitted.
C36_NeverSubmitsWhileDisabled ==
    [][disabled => onSubmitCalls' = <<>>]_vars

\* C37: the stop icon is shown exactly when isExecutingPlan is true and the
\* input is blank; the submit button is disabled exactly when the input is
\* blank and the stop icon is not shown; and a click on the button while the
\* stop icon is shown calls onSubmit zero times and changes neither the
\* input nor any plan or loading state.
C37_StopIconAndButton ==
    /\ [](/\ (icon = "Square") <=> (isExecutingPlan /\ Blank(input))
          /\ buttonDisabled <=> (Blank(input) /\ icon # "Square"))
    /\ [][(icon = "Square" /\ inputEvent'.kind \in {"click", "submit"}) =>
            /\ inputEvent'.kind = "submit"
            /\ onSubmitCalls' = <<>>
            /\ input' = input
            /\ UNCHANGED <<planVars, pageVars>>]_vars

C37_Witness ==
    /\ inputEvent.kind = "submit"
    /\ icon = "Square"
    /\ input = <<" ", "\n">>
    /\ onSubmitCalls = <<>>
    /\ ~buttonDisabled

-----------------------------------------------------------------------------
(* StreamingText: C39 *)

Reveals(shown, whole, n) ==
    /\ n <= Len(whole)
    /\ Len(shown) = n
    /\ \A i \in 1..n : shown[i] = whole[i]

\* C39: displayedText is always the first currentIndex characters of text
\* and currentIndex never exceeds the length of text; currentIndex starts
\* at 0 and every step that changes it is a timeout that adds exactly 1;
\* with the timeouts firing, displayedText eventually equals text, and
\* from then on no timeout is scheduled.
C39_RevealsOneCharacterPerTick ==
    /\ currentIndex = 0
    /\ [](Reveals(displayedText, text, currentIndex))
    /\ [][currentIndex' # currentIndex =>
            (IsPresent(timer) /\ currentIndex' = currentIndex + 1)]_vars
    /\ <>[](displayedText = text /\ timer = Absent)

C39_Witness ==
    /\ text = <<"a", "b", "b", "a">>
    /\ displayedText = <<"a", "b", "b">>
    /\ currentIndex = 3
    /\ IsPresent(timer)

-----------------------------------------------------------------------------
(* TypewriterInput: C38 *)

\* C38: once a message has been submitted through TypewriterInput the
\* placeholder is the empty string in every later state, whatever the
\* animation callbacks of the runs started so far do afterwards.
C38_PlaceholderStaysEmpty ==
    submits # <<>> => placeholder = <<>>

C38_Witness ==
    /\ submits # <<>>
    /\ Len(runs) = 2
    /\ runs[1].skipped
    /\ runs[2].skipped
    /\ runs[2].at = "delete"
    /\ runs[2].latest < Len(fullText(runs[2].phraseIdx))
    /\ placeholder = <<>>

-----------------------------------------------------------------------------
(* IndexPage: C31, C32, C33, C34 *)

InFlight(s) == sends[s].pc \in {"response", "streaming", "creating"}

Added(s) == sends[s].pc # "pending" /\ ~sends[s].transition

HumanEntries(s) ==
    {i \in 1..Len(messages) : messages[i].type = "human" /\ messages[i].id = s}

\* C31: isExecutingPlan, that is isLoading or (a plan is set and
\* isPlanCompleted is false), is true whenever a call of handleSendMessage
\* is awaiting its response or a displayed plan message has not completed
\* all its steps.
C31_ExecutingWheneverAwaitedOrRunning ==
    (\/ \E s \in 1..Len(sends) : InFlight(s)
     \/ \E p \in 1..Len(planRuns) : planRuns[p].at = "running")
        => executingPlan

\* C32: isLoading is true whenever some call of handleSendMessage has set
\* it and has not yet reached its finally block, and false once every call
\* made has finished.
C32_LoadingWhileAnyCallInFlight ==
    /\ (\E s \in 1..Len(sends) : InFlight(s)) => isLoading
    /\ (sends # <<>> /\ \A s \in 1..Len(sends) : sends[s].pc = "done") => ~isLoading

\* C33: every content passed to handleSendMessage is exactly one human
\* message of messages once the call has added it, and the human messages
\* are in the order of the calls.
C33_NoMessageLost ==
    /\ \A s \in 1..Len(sends) : Added(s) => Cardinality(HumanEntries(s)) = 1
    /\ \A i, j \in 1..Len(messages) :
        (i < j /\ messages[i].type = "human" /\ messages[j].type = "human")
            => messages[i].id < messages[j].id

Entry(s, type, content) == [id |-> s, type |-> type, content |-> content]

ThreeEntries(s) ==
    <<Entry(s, "human", sends[s].content), Entry(s, "ai", aiMessageText),
      Entry(s, "ai", "langingpagePlan")>>

GainedSoFar(s) ==
    SubSeq(ThreeEntries(s), 1,
           CASE ~Added(s) -> 0
             [] Added(s) /\ sends[s].pc = "response" -> 1
             [] sends[s].pc \in {"streaming", "creating"} -> 2
             [] sends[s].pc = "done" -> 3)

AloneSends == {s \in 1..Len(sends) : sends[s].alone}

\* C34: a call of handleSendMessage that overlaps no other call adds to
\* messages exactly the human message, then the AI text message, then the
\* plan message; while it is the latest call isCreatingPlan is true only
\* between its AI text message and its plan message; landingpagePlan
\* becomes non-null only when an AI text message is already in messages,
\* and once non-null it never becomes null again.
C34_SendAloneGainsThreeEntries ==
    /\ [](\A s \in AloneSends :
            IF s = Len(sends)
            THEN /\ messages = sends[s].before \o GainedSoFar(s)
                 /\ isCreatingPlan => sends[s].pc = "creating"
                 /\ (s = 1 /\ IsPresent(landingpagePlan)) => sends[s].pc = "done"
            ELSE IsPrefix(sends[s].before \o ThreeEntries(s), messages))
    /\ [][/\ (landingpagePlan = Absent /\ landingpagePlan' # Absent) =>
                \E i \in 1..Len(messages) :
                    messages[i].type = "ai" /\ messages[i].content = aiMessageText
          /\ landingpagePlan # Absent => landingpagePlan' # Absent]_vars

C34_Witness ==
    /\ Len(sends) = 2
    /\ AloneSends = {1, 2}
    /\ sends[2].pc = "done"
    /\ sends[2].before = ThreeEntries(1)
    /\ messages = ThreeEntries(1) \o ThreeEntries(2)
    /\ IsPresent(landingpagePlan)
    /\ ~isCreatingPlan

====
